---- MODULE Spec2Model ----
(***************************************************************************)
(* Verification model of the amebazii binary image codec and signing       *)
(* engine: optional-field helpers, fixed-size headers, partition table,    *)
(* boot image, sub-image / OTA image, and the AsImage signing protocol.    *)
(*                                                                         *)
(* Bytes are integers 0..255, byte strings are sequences.  A stream is a   *)
(* byte string plus a 0-based position.  Option<T> is <<>> (None) or <<x>> *)
(* (Some(x)).  Result<T, Error> is a record [ok, err, val].                *)
(***************************************************************************)
EXTENDS Integers, Sequences, FiniteSets, Bags, TLC

VARIABLES cval, cbytes, cres,        \* codec specification: input value, encoded bytes, last result
          img, file, ret, edits,     \* image specification: image, encoded stream, last return, edit count
          prep,                      \* ... and how the image was sized and signed since its last edit
          ota, ofile, oret,          \* OTA specification: OTA image, encoded stream, last return
          flash, ffile, fret         \* flash specification: flash image, encoded stream, last return

vars == <<cval, cbytes, cres, img, file, ret, edits, prep, ota, ofile, oret,
          flash, ffile, fret>>

codecVars == <<cval, cbytes, cres>>
imageVars == <<img, file, ret, edits, prep>>
otaVars == <<ota, ofile, oret>>
flashVars == <<flash, ffile, fret>>

----------------------------------------------------------------------------
(* Byte-string helpers                                                      *)

\* A u32 is held by its 32-bit pattern read as a two's complement integer (the range of
\* the checker's integers): v < 2^31 is held as v, v >= 2^31 as v - 2^32.  % and \div are
\* floored, so LE32 yields the little-endian bytes of the pattern in both cases.
U32MAX == -1

None == <<>>

Some(x) == <<x>>

IsSome(o) == Len(o) = 1

Fill(n, b) == [i \in 1..n |-> b]

Min(a, b) == IF a < b THEN a ELSE b

Max(a, b) == IF a > b THEN a ELSE b

BoolU8(b) == IF b THEN 1 ELSE 0

LE16(v) == <<v % 256, (v \div 256) % 256>>

LE32(v) == <<v % 256, (v \div 256) % 256, (v \div 65536) % 256, (v \div 16777216) % 256>>

\* bytes [pos, pos+n) of buf, pos 0-based
Slice(buf, pos, n) == SubSeq(buf, pos + 1, pos + n)

CanRead(buf, pos, n) == pos + n <= Len(buf)

U8At(buf, pos) == buf[pos + 1]

U16At(buf, pos) == buf[pos + 1] + 256 * buf[pos + 2]

U32At(buf, pos) ==
    buf[pos + 1] + 256 * buf[pos + 2] + 65536 * buf[pos + 3]
    + 16777216 * (IF buf[pos + 4] >= 128 THEN buf[pos + 4] - 256 ELSE buf[pos + 4])

\* a u32 used as a length: patterns >= 2^31 exceed every stream of the model
IsHuge(v) == v < 0

Ok(v) == [ok |-> TRUE, err |-> "", val |-> v]

Err(e) == [ok |-> FALSE, err |-> e, val |-> <<>>]

\* result of a read: value and the position after it
RdOk(v, p) == [ok |-> TRUE, err |-> "", val |-> v, pos |-> p]

RdErr(e) == [ok |-> FALSE, err |-> e, val |-> <<>>, pos |-> 0]

\* a `let` binding: F applied to the value of v, v computed once
With(v, F(_)) == CHOOSE r \in {F(x) : x \in {v}} : TRUE

\* a Cursor over a pre-filled Vec: written bytes replace the prefix, longer writes grow it
Overlay(buffer, data) ==
    [i \in 1..Max(Len(buffer), Len(data)) |-> IF i <= Len(data) THEN data[i] ELSE buffer[i]]

----------------------------------------------------------------------------
(* Optional fixed-size fields (types/mod.rs)                                *)

is_valid_data(key) == \E i \in 1..Len(key) : key[i] # 255

is_valid_key(key) == \E i \in 1..Len(key) : key[i] # 255

\* the macro assigns the target only inside the if, otherwise the target keeps its value
read_valid_data(target, buf) == IF ~is_valid_data(buf) THEN Some(buf) ELSE target

write_padding(size) == Fill(size, 255)

write_data(key, len) == IF IsSome(key) THEN key[1] ELSE write_padding(len)

----------------------------------------------------------------------------
(* Alignment helpers (types/mod.rs, util.rs)                                *)

\* write_aligned!(writer, size, fill, optional): bytes appended at stream position pos
write_aligned_optional(pos, size, fill) ==
    LET padding == pos % size
    IN IF padding > 0 THEN Fill(size - padding, fill) ELSE <<>>

\* write_aligned!(writer, size, fill): always pads, a full quantum when aligned
write_aligned(pos, size, fill) == Fill(size - (pos % size), fill)

\* skip_aligned: the position after the skip
skip_aligned(pos, align) ==
    LET skip == pos % align
    IN IF skip > 0 THEN pos + (align - skip) ELSE pos

----------------------------------------------------------------------------
(* Enumerations (types/enums.rs): values are the numeric codes              *)

ImageTypeCodes == (0..11) \cup {63}

SectionTypeCodes == 128..133

XipPageRemapSizeCodes == 0..2

EncryptionAlgoCodes == {0, 1, 255}

HashAlgoCodes == {0, 1, 255}

PartitionTypeCodes == 0..9

KeyExportOpCodes == 0..2

HashMd5 == 0

HashSha256 == 1

HashOther == 255

PT_PartTab == 0

PT_Boot == 1

PT_Fw1 == 2

PT_Fw2 == 3

PT_Sys == 4

PT_Cal == 5

PT_User == 6

PT_Var == 7

PT_MP == 8

PT_Rdp == 9

----------------------------------------------------------------------------
(* KeyBlock (types/header.rs)                                               *)

KeyBlock_default == [enc_pubkey |-> Fill(32, 255), hash_pubkey |-> Fill(32, 255)]

KeyBlock_binary_size == 64

KeyBlock_write_to(self) == self.enc_pubkey \o self.hash_pubkey

KeyBlock_read_from(self, buf, pos) ==
    IF ~CanRead(buf, pos, 64) THEN RdErr("IOError")
    ELSE RdOk([enc_pubkey |-> Slice(buf, pos, 32), hash_pubkey |-> Slice(buf, pos + 32, 32)],
              pos + 64)

----------------------------------------------------------------------------
(* ImageHeader (types/header.rs)                                            *)

ImageHeader_default ==
    [segment_size |-> 0, next_offset |-> U32MAX, img_type |-> 0, is_encrypt |-> FALSE,
     serial |-> U32MAX, user_key1 |-> Fill(32, 255), user_key2 |-> Fill(32, 255)]

ImageHeader_binary_size == 96

ImageHeader_has_next(self) == self.next_offset # U32MAX

ImageHeader_write_to(self) ==
    LE32(self.segment_size) \o LE32(self.next_offset)
    \o <<self.img_type, BoolU8(self.is_encrypt), 0>>
    \o <<BoolU8(is_valid_key(self.user_key1)) + 2 * BoolU8(is_valid_key(self.user_key2))>>
    \o Fill(8, 255) \o LE32(self.serial) \o Fill(8, 255)
    \o self.user_key1 \o self.user_key2

ImageHeader_read_from(self, buf, pos) ==
    IF ~CanRead(buf, pos, 8) THEN RdErr("IOError")
    ELSE IF ~CanRead(buf, pos + 8, 1) THEN RdErr("IOError")
    ELSE IF U8At(buf, pos + 8) \notin ImageTypeCodes THEN RdErr("UnknownImageType")
    ELSE IF ~CanRead(buf, pos + 9, 1) THEN RdErr("IOError")
    ELSE IF ~CanRead(buf, pos + 11, 1) THEN RdErr("IOError")
    ELSE IF ~CanRead(buf, pos + 20, 4) THEN RdErr("IOError")
    ELSE LET flags == U8At(buf, pos + 11)
             key1_valid == flags % 2 = 1
             key2_valid == (flags \div 2) % 2 = 1
         IN IF key1_valid /\ ~CanRead(buf, pos + 32, 32) THEN RdErr("IOError")
            ELSE IF key2_valid /\ ~CanRead(buf, pos + 64, 32) THEN RdErr("IOError")
            ELSE RdOk([segment_size |-> U32At(buf, pos),
                       next_offset |-> U32At(buf, pos + 4),
                       img_type |-> U8At(buf, pos + 8),
                       is_encrypt |-> U8At(buf, pos + 9) # 0,
                       serial |-> U32At(buf, pos + 20),
                       user_key1 |-> IF key1_valid THEN Slice(buf, pos + 32, 32)
                                     ELSE self.user_key1,
                       user_key2 |-> IF key2_valid THEN Slice(buf, pos + 64, 32)
                                     ELSE self.user_key2],
                      pos + 96)

----------------------------------------------------------------------------
(* SectionHeader (types/header.rs)                                          *)

SectionHeader_default ==
    [length |-> 0, next_offset |-> U32MAX, sect_type |-> 133, sce_enabled |-> FALSE,
     xip_page_size |-> 0, xip_block_size |-> 0, valid_pattern |-> <<0, 1, 2, 3, 4, 5, 6, 7>>,
     xip_key |-> Fill(16, 255), xip_iv |-> Fill(16, 255)]

SectionHeader_binary_size == 96

SectionHeader_has_next(self) == self.next_offset # U32MAX

xip_key_iv_valid(self) == is_valid_key(self.xip_key) /\ is_valid_key(self.xip_iv)

SectionHeader_write_to(self) ==
    LE32(self.length) \o LE32(self.next_offset)
    \o <<self.sect_type, BoolU8(self.sce_enabled), self.xip_page_size, self.xip_block_size>>
    \o Fill(4, 255) \o self.valid_pattern
    \o <<BoolU8(xip_key_iv_valid(self))>> \o Fill(7, 255)
    \o self.xip_key \o self.xip_iv

SectionHeader_read_from(self, buf, pos) ==
    IF ~CanRead(buf, pos, 8) THEN RdErr("IOError")
    ELSE IF ~CanRead(buf, pos + 8, 1) THEN RdErr("IOError")
    ELSE IF U8At(buf, pos + 8) \notin SectionTypeCodes THEN RdErr("UnknownSectionType")
    ELSE IF ~CanRead(buf, pos + 9, 2) THEN RdErr("IOError")
    ELSE IF U8At(buf, pos + 10) \notin XipPageRemapSizeCodes THEN RdErr("InvalidEnumValue")
    ELSE IF ~CanRead(buf, pos + 11, 1) THEN RdErr("IOError")
    ELSE IF ~CanRead(buf, pos + 16, 9) THEN RdErr("IOError")
    ELSE LET sce_key_iv_valid == U8At(buf, pos + 24) % 2 = 1
         IN IF sce_key_iv_valid /\ ~CanRead(buf, pos + 32, 32) THEN RdErr("IOError")
            ELSE RdOk([length |-> U32At(buf, pos),
                       next_offset |-> U32At(buf, pos + 4),
                       sect_type |-> U8At(buf, pos + 8),
                       sce_enabled |-> U8At(buf, pos + 9) # 0,
                       xip_page_size |-> U8At(buf, pos + 10),
                       xip_block_size |-> U8At(buf, pos + 11),
                       valid_pattern |-> Slice(buf, pos + 16, 8),
                       xip_key |-> IF sce_key_iv_valid THEN Slice(buf, pos + 32, 16)
                                   ELSE self.xip_key,
                       xip_iv |-> IF sce_key_iv_valid THEN Slice(buf, pos + 48, 16)
                                  ELSE self.xip_iv],
                      pos + 96)

----------------------------------------------------------------------------
(* EntryHeader (types/header.rs)                                            *)

EntryHeader_default == [length |-> 0, load_address |-> 0, entry_address |-> None]

EntryHeader_binary_size == 32

EntryHeader_write_to(self) ==
    LE32(self.length) \o LE32(self.load_address)
    \o LE32(IF IsSome(self.entry_address) THEN self.entry_address[1] ELSE U32MAX)
    \o Fill(20, 255)

EntryHeader_read_from(self, buf, pos) ==
    IF ~CanRead(buf, pos, 12) THEN RdErr("IOError")
    ELSE RdOk([length |-> U32At(buf, pos),
               load_address |-> U32At(buf, pos + 4),
               entry_address |-> IF U32At(buf, pos + 8) = U32MAX THEN None
                                 ELSE Some(U32At(buf, pos + 8))],
              pos + 32)

----------------------------------------------------------------------------
(* FST (amebazii/types/fst.rs)                                              *)

FST_default ==
    [enc_algo |-> None, hash_algo |-> Some(HashSha256), partition_size |-> 0,
     valid_pattern |-> <<0, 1, 2, 3, 4, 5, 6, 7>>, cipher_key |-> None, cipher_iv |-> None]

FST_binary_size == 96

is_cipher_key_iv_valid(self) ==
    IF IsSome(self.cipher_key) /\ IsSome(self.cipher_iv)
    THEN is_valid_data(self.cipher_key[1]) /\ is_valid_data(self.cipher_iv[1])
    ELSE FALSE

\* Option<algo>::unwrap_or_default(): the first variant, code 0
unwrap_or_default(o) == IF IsSome(o) THEN o[1] ELSE 0

FST_write_to(self) ==
    LE16(unwrap_or_default(self.enc_algo)) \o LE16(unwrap_or_default(self.hash_algo))
    \o LE32(self.partition_size) \o self.valid_pattern
    \o write_padding(4)
    \o <<BoolU8(IsSome(self.enc_algo)) + 2 * BoolU8(IsSome(self.hash_algo))>>
    \o <<BoolU8(is_cipher_key_iv_valid(self))>>
    \o write_padding(10)
    \o write_data(self.cipher_key, 32)
    \o write_data(self.cipher_iv, 16)
    \o write_padding(16)

FST_read_from(self, buf, pos) ==
    IF ~CanRead(buf, pos, 2) THEN RdErr("IOError")
    ELSE IF U16At(buf, pos) \notin EncryptionAlgoCodes THEN RdErr("InvalidEnumValue")
    ELSE IF ~CanRead(buf, pos + 2, 2) THEN RdErr("IOError")
    ELSE IF U16At(buf, pos + 2) \notin HashAlgoCodes THEN RdErr("InvalidEnumValue")
    ELSE IF ~CanRead(buf, pos + 4, 12) THEN RdErr("IOError")
    ELSE IF ~CanRead(buf, pos + 20, 2) THEN RdErr("IOError")
    ELSE LET flags == U8At(buf, pos + 20) % 4
             enc_enabled == flags % 2 = 1
             hash_enabled == (flags \div 2) % 2 = 1
             keys_valid == U8At(buf, pos + 21) % 2 = 1
         IN IF keys_valid /\ ~CanRead(buf, pos + 32, 48) THEN RdErr("IOError")
            ELSE RdOk([enc_algo |-> IF enc_enabled THEN Some(U16At(buf, pos)) ELSE None,
                       hash_algo |-> IF hash_enabled THEN Some(U16At(buf, pos + 2)) ELSE None,
                       partition_size |-> U32At(buf, pos + 4),
                       valid_pattern |-> Slice(buf, pos + 8, 8),
                       cipher_key |-> IF keys_valid THEN Some(Slice(buf, pos + 32, 32))
                                      ELSE self.cipher_key,
                       cipher_iv |-> IF keys_valid THEN Some(Slice(buf, pos + 64, 16))
                                     ELSE self.cipher_iv],
                      pos + 96)

----------------------------------------------------------------------------
(* Record (amebazii/types/image/pt.rs)                                      *)

Record_default ==
    [start_addr |-> 0, length |-> 0, part_type |-> PT_PartTab, dbg_skip |-> FALSE,
     hash_key |-> None]

Record_binary_size == 64

hash_key_valid(self) ==
    IF IsSome(self.hash_key) THEN is_valid_data(self.hash_key[1]) ELSE FALSE

\* Record::write_to writing the length in the place of start_addr
Record_write_to_length_twice(self) ==
    LE32(self.length) \o LE32(self.length)
    \o <<self.part_type, BoolU8(self.dbg_skip)>>
    \o write_padding(6)
    \o <<BoolU8(hash_key_valid(self))>>
    \o write_padding(15)
    \o write_data(self.hash_key, 32)

Record_write_to(self) ==
    LE32(self.start_addr) \o LE32(self.length)
    \o <<self.part_type, BoolU8(self.dbg_skip)>>
    \o write_padding(6)
    \o <<BoolU8(hash_key_valid(self))>>
    \o write_padding(15)
    \o write_data(self.hash_key, 32)

Record_read_from(self, buf, pos) ==
    IF ~CanRead(buf, pos, 8) THEN RdErr("IOError")
    ELSE IF ~CanRead(buf, pos + 8, 1) THEN RdErr("IOError")
    ELSE IF U8At(buf, pos + 8) \notin PartitionTypeCodes THEN RdErr("InvalidEnumValue")
    ELSE IF ~CanRead(buf, pos + 9, 1) THEN RdErr("IOError")
    ELSE IF ~CanRead(buf, pos + 16, 1) THEN RdErr("IOError")
    ELSE LET base == [start_addr |-> U32At(buf, pos),
                      length |-> U32At(buf, pos + 4),
                      part_type |-> U8At(buf, pos + 8),
                      dbg_skip |-> U8At(buf, pos + 9) # 0,
                      hash_key |-> self.hash_key]
         IN IF U8At(buf, pos + 16) % 2 # 0
            THEN IF ~CanRead(buf, pos + 32, 32) THEN RdErr("IOError")
                 ELSE RdOk([base EXCEPT !.hash_key =
                                read_valid_data(self.hash_key, Slice(buf, pos + 32, 32))],
                           pos + 64)
            ELSE RdOk(base, pos + 64)


----------------------------------------------------------------------------
(* Hashing (util.rs, types/enums.rs).  The digests are an external         *)
(* capability; the model computes a deterministic digest of the stated      *)
(* length from the key and every byte of the data.                          *)

\* sum over the positions of a position weight times the byte (plus one)
WeightedSum(data) ==
    LET d == data \o <<>>
    IN BagCardinality([i \in 1..Len(d) |-> (((i * 7) % 31) + 1) * (d[i] + 1)]) % 65521

Digest(n, tag, key, data) ==
    LET h == WeightedSum(data)
        k == WeightedSum(key)
    IN [i \in 1..n |->
          CASE i = 1 -> h % 256
            [] i = 2 -> h \div 256
            [] i = 3 -> k % 256
            [] i = 4 -> k \div 256
            [] i = 5 -> Len(data) % 256
            [] i = 6 -> tag
            [] OTHER -> (h + k + i) % 256]

sha256(data) == Digest(32, 1, <<>>, data)

hmac_sha256(key, data) == Digest(32, 2, key, data)

md5(data) == Digest(16, 3, <<>>, data)

hmac_md5(key, data) == Digest(16, 4, key, data)

\* HashAlgo::compute_hash(buffer, key), key an Option
compute_hash(algo, buffer, key) ==
    CASE algo = HashSha256 ->
            Ok(IF IsSome(key) THEN hmac_sha256(key[1], buffer) ELSE sha256(buffer))
      [] algo = HashMd5 ->
            Ok(IF IsSome(key) THEN hmac_md5(key[1], buffer) ELSE md5(buffer))
      [] OTHER -> Err("UnsupportedHashAlgo")

----------------------------------------------------------------------------
(* Results of writers: the bytes written so far, also when the write fails  *)

WrOk(b) == [ok |-> TRUE, err |-> "", bytes |-> b]

WrErr(e, b) == [ok |-> FALSE, err |-> e, bytes |-> b]

\* EncryptedOr<T>
Encrypted(data) == [tag |-> "Encrypted", v |-> data]

Plain(t) == [tag |-> "Plain", v |-> t]

is_encrypted(e) == e.tag = "Encrypted"

----------------------------------------------------------------------------
(* TrapConfig (amebazii/types/image/pt.rs)                                  *)

RECURSIVE BitOr(_, _, _)
\* bitwise OR of the low n bits of a and b
BitOr(a, b, n) ==
    IF n = 0 THEN 0
    ELSE Max(a % 2, b % 2) + 2 * BitOr(a \div 2, b \div 2, n - 1)

TrapConfig_default == [valid |-> FALSE, level |-> 0, port |-> 0, pin |-> 0]

\* TrapConfig::from taking the port from bits 5-6
TrapConfig_from_two_bit_port(value) ==
    [valid |-> (value \div 32768) % 2 # 0,
     level |-> (value \div 256) % 2,
     port |-> (value \div 32) % 4,
     pin |-> value % 32]

TrapConfig_from(value) ==
    [valid |-> (value \div 32768) % 2 # 0,
     level |-> (value \div 256) % 2,
     port |-> (value \div 32) % 8,
     pin |-> value % 32]

TrapConfig_into(self) ==
    BitOr(BitOr(BoolU8(self.valid) * 32768, (self.level * 256) % 65536, 16),
          BitOr((self.port * 32) % 65536, self.pin, 16), 16)

----------------------------------------------------------------------------
(* PartTab (amebazii/types/image/pt.rs)                                     *)

PartTab_default ==
    [rma_w_state |-> 255, rma_ov_state |-> 255, eFWV |-> 0, fw1_idx |-> 0, fw2_idx |-> 0,
     ota_trap |-> TrapConfig_default, mp_trap |-> TrapConfig_default, key_exp_op |-> 0,
     user_ext |-> Fill(12, 255), records |-> <<>>, user_bin |-> <<>>]

RECURSIVE Records_write_to(_)
Records_write_to(records) ==
    IF records = <<>> THEN <<>>
    ELSE Record_write_to(Head(records)) \o Records_write_to(Tail(records))

\* PartTab::write_to storing the number of records in the count byte
PartTab_write_to_count_len(self) ==
    LET head == <<self.rma_w_state, self.rma_ov_state, self.eFWV, 0>>
    IN IF Len(self.records) = 0 THEN WrErr("InvalidState", head)
       ELSE WrOk(head
                 \o <<Len(self.records) % 256, self.fw1_idx, self.fw2_idx>>
                 \o write_padding(3)
                 \o LE16(TrapConfig_into(self.ota_trap))
                 \o LE16(TrapConfig_into(self.mp_trap))
                 \o write_padding(1)
                 \o <<self.key_exp_op>>
                 \o LE32(Len(self.user_bin))
                 \o self.user_ext
                 \o Records_write_to(self.records)
                 \o self.user_bin)

PartTab_write_to(self) ==
    LET head == <<self.rma_w_state, self.rma_ov_state, self.eFWV, 0>>
    IN IF Len(self.records) = 0 THEN WrErr("InvalidState", head)
       ELSE WrOk(head
                 \o <<(Len(self.records) - 1) % 256, self.fw1_idx, self.fw2_idx>>
                 \o write_padding(3)
                 \o LE16(TrapConfig_into(self.ota_trap))
                 \o LE16(TrapConfig_into(self.mp_trap))
                 \o write_padding(1)
                 \o <<self.key_exp_op>>
                 \o LE32(Len(self.user_bin))
                 \o self.user_ext
                 \o Records_write_to(self.records)
                 \o self.user_bin)

new_record(self, part_type) ==
    [self EXCEPT !.records = Append(@, [Record_default EXCEPT !.part_type = part_type])]

has_record(self, part_type) == \E i \in 1..Len(self.records) : self.records[i].part_type = part_type

\* index of the first record of the type (get_record_mut), 0 when there is none
record_index(self, part_type) ==
    IF has_record(self, part_type)
    THEN CHOOSE i \in 1..Len(self.records) :
            /\ self.records[i].part_type = part_type
            /\ \A j \in 1..(i - 1) : self.records[j].part_type # part_type
    ELSE 0

set_user_bin(self, user_bin) == [self EXCEPT !.user_bin = @ \o user_bin]

RECURSIVE Records_read_from(_, _, _)
\* the loop of PartTab::read_from pushing n records read with from_stream
Records_read_from(buf, pos, n) ==
    IF n = 0 THEN RdOk(<<>>, pos)
    ELSE With(Record_read_from(Record_default, buf, pos), LAMBDA r :
           IF ~r.ok THEN RdErr(r.err)
           ELSE With(Records_read_from(buf, r.pos, n - 1), LAMBDA rest :
                  IF ~rest.ok THEN RdErr(rest.err)
                  ELSE RdOk(<<r.val>> \o rest.val, rest.pos)))

\* PartTab::read_from reading user_len bytes of user data, whatever user_len is
PartTab_read_from_unclamped(buf, pos) ==
    IF ~CanRead(buf, pos, 3) \/ ~CanRead(buf, pos + 4, 3) \/ ~CanRead(buf, pos + 10, 4)
       \/ ~CanRead(buf, pos + 15, 1)
    THEN RdErr("IOError")
    ELSE IF U8At(buf, pos + 15) \notin KeyExportOpCodes THEN RdErr("InvalidEnumValue")
    ELSE IF ~CanRead(buf, pos + 16, 4) \/ ~CanRead(buf, pos + 20, 12) THEN RdErr("IOError")
    ELSE With(Records_read_from(buf, pos + 32, U8At(buf, pos + 4) + 1), LAMBDA recs :
           IF ~recs.ok THEN RdErr(recs.err)
           ELSE LET user_len == U32At(buf, pos + 16)
                IN IF IsHuge(user_len) \/ ~CanRead(buf, recs.pos, user_len)
                   THEN RdErr("IOError")
                   ELSE RdOk([rma_w_state |-> U8At(buf, pos),
                              rma_ov_state |-> U8At(buf, pos + 1),
                              eFWV |-> U8At(buf, pos + 2),
                              fw1_idx |-> U8At(buf, pos + 5),
                              fw2_idx |-> U8At(buf, pos + 6),
                              ota_trap |-> TrapConfig_from(U16At(buf, pos + 10)),
                              mp_trap |-> TrapConfig_from(U16At(buf, pos + 12)),
                              key_exp_op |-> U8At(buf, pos + 15),
                              user_ext |-> Slice(buf, pos + 20, 12),
                              records |-> recs.val,
                              user_bin |-> Slice(buf, recs.pos, user_len)],
                             recs.pos + user_len))

\* from_stream::<PartTab>: read into PartTab::default() from position pos
PartTab_read_from(buf, pos) ==
    IF ~CanRead(buf, pos, 3) \/ ~CanRead(buf, pos + 4, 3) \/ ~CanRead(buf, pos + 10, 4)
       \/ ~CanRead(buf, pos + 15, 1)
    THEN RdErr("IOError")
    ELSE IF U8At(buf, pos + 15) \notin KeyExportOpCodes THEN RdErr("InvalidEnumValue")
    ELSE IF ~CanRead(buf, pos + 16, 4) \/ ~CanRead(buf, pos + 20, 12) THEN RdErr("IOError")
    ELSE With(Records_read_from(buf, pos + 32, U8At(buf, pos + 4) + 1), LAMBDA recs :
           IF ~recs.ok THEN RdErr(recs.err)
           ELSE LET stored_len == U32At(buf, pos + 16)
                    user_len == IF IsHuge(stored_len) \/ stored_len > 256 THEN 256
                                ELSE stored_len
                IN IF ~CanRead(buf, recs.pos, user_len) THEN RdErr("IOError")
                   ELSE RdOk([rma_w_state |-> U8At(buf, pos),
                              rma_ov_state |-> U8At(buf, pos + 1),
                              eFWV |-> U8At(buf, pos + 2),
                              fw1_idx |-> U8At(buf, pos + 5),
                              fw2_idx |-> U8At(buf, pos + 6),
                              ota_trap |-> TrapConfig_from(U16At(buf, pos + 10)),
                              mp_trap |-> TrapConfig_from(U16At(buf, pos + 12)),
                              key_exp_op |-> U8At(buf, pos + 15),
                              user_ext |-> Slice(buf, pos + 20, 12),
                              records |-> recs.val,
                              user_bin |-> Slice(buf, recs.pos, user_len)],
                             recs.pos + user_len))

\* EncryptedOr<PartTab>::write_to
EncryptedOrPartTab_write_to(pt) ==
    IF is_encrypted(pt) THEN WrOk(pt.v) ELSE PartTab_write_to(pt.v)

----------------------------------------------------------------------------
(* PartitionTableImage (amebazii/types/image/pt.rs)                         *)

PartitionTableImage_default ==
    [kind |-> "pt", keyblock |-> KeyBlock_default, header |-> ImageHeader_default,
     pt |-> Plain(PartTab_default), hash |-> Fill(32, 255)]

\* build_segment_size counting the records the table holds, without the extra record
PartitionTableImage_build_segment_size_no_extra_record(self) ==
    LET new_size == IF is_encrypted(self.pt) THEN Len(self.pt.v)
                    ELSE 32 + (Len(self.pt.v.records) * Record_binary_size)
                         + Len(self.pt.v.user_bin)
    IN new_size + (32 - (new_size % 32))

\* build_segment_size rounding up to the alignment, adding nothing to an aligned size
PartitionTableImage_build_segment_size_round_up(self) ==
    LET new_size == IF is_encrypted(self.pt) THEN Len(self.pt.v)
                    ELSE 32 + ((Len(self.pt.v.records) + 1) * Record_binary_size)
                         + Len(self.pt.v.user_bin)
    IN new_size + ((32 - (new_size % 32)) % 32)

PartitionTableImage_build_segment_size(self) ==
    LET new_size == IF is_encrypted(self.pt) THEN Len(self.pt.v)
                    ELSE 32 + ((Len(self.pt.v.records) + 1) * Record_binary_size)
                         + Len(self.pt.v.user_bin)
    IN new_size + (32 - (new_size % 32))

\* build_signature with a scratch buffer of zeros
PartitionTableImage_signed_bytes_zero_fill(self) ==
    LET buffer == Fill(64 + ImageHeader_binary_size
                       + PartitionTableImage_build_segment_size(self), 0)
        pt == EncryptedOrPartTab_write_to(self.pt)
        written == KeyBlock_write_to(self.keyblock) \o ImageHeader_write_to(self.header)
                   \o pt.bytes
    IN IF pt.ok THEN WrOk(Overlay(buffer, written)) ELSE WrErr(pt.err, Overlay(buffer, written))

\* the scratch buffer build_signature fills and hashes
PartitionTableImage_signed_bytes(self) ==
    LET buffer == Fill(64 + ImageHeader_binary_size
                       + PartitionTableImage_build_segment_size(self), 255)
        pt == EncryptedOrPartTab_write_to(self.pt)
        written == KeyBlock_write_to(self.keyblock) \o ImageHeader_write_to(self.header)
                   \o pt.bytes
    IN IF pt.ok THEN WrOk(Overlay(buffer, written)) ELSE WrErr(pt.err, Overlay(buffer, written))

PartitionTableImage_build_signature(self, key) ==
    LET b == PartitionTableImage_signed_bytes(self)
    IN IF ~b.ok THEN Err(b.err)
       ELSE IF ~IsSome(key) THEN Err("panic")
       ELSE Ok(hmac_sha256(key[1], b.bytes))

PartitionTableImage_write_to(self) ==
    LET head == KeyBlock_write_to(self.keyblock) \o ImageHeader_write_to(self.header)
        pt == EncryptedOrPartTab_write_to(self.pt)
        pt_buffer == Overlay(Fill(self.header.segment_size, 255), pt.bytes)
    IN IF ~pt.ok THEN WrErr(pt.err, head)
       ELSE WrOk(head \o pt_buffer \o self.hash)

\* create_signature: HMAC over the first 64 + 96 + segment_size bytes of the stream
PartitionTableImage_create_signature(self, buf, key) ==
    LET n == 64 + ImageHeader_binary_size + self.header.segment_size
    IN IF ~CanRead(buf, 0, n) THEN Err("IOError")
       ELSE Ok(hmac_sha256(key, Slice(buf, 0, n)))

\* from_stream::<PartitionTableImage>: read into the default image from position pos
PartitionTableImage_read_from(buf, pos) ==
    With(KeyBlock_read_from(KeyBlock_default, buf, pos), LAMBDA kb :
      IF ~kb.ok THEN RdErr("MalformedKeyblock")
      ELSE With(ImageHeader_read_from(ImageHeader_default, buf, kb.pos), LAMBDA hd :
        IF ~hd.ok THEN RdErr("MalformedImageHeader")
        ELSE LET start_pos == hd.pos
                 size == hd.val.segment_size
             IN With(IF hd.val.is_encrypt
                     THEN IF IsHuge(size) \/ ~CanRead(buf, start_pos, size)
                          THEN RdErr("IOError")
                          ELSE RdOk(Encrypted(Slice(buf, start_pos, size)), start_pos + size)
                     ELSE With(PartTab_read_from(buf, start_pos), LAMBDA t :
                            IF t.ok THEN RdOk(Plain(t.val), t.pos) ELSE RdErr(t.err)),
                     LAMBDA pt :
               IF ~pt.ok THEN RdErr("MalfromedPartTab")
               ELSE LET hpos == IF IsHuge(size) \/ pt.pos < start_pos + size
                                THEN start_pos + size ELSE pt.pos
                    IN IF IsHuge(size) \/ ~CanRead(buf, hpos, 32) THEN RdErr("IOError")
                       ELSE RdOk([kind |-> "pt", keyblock |-> kb.val, header |-> hd.val,
                                  pt |-> pt.val, hash |-> Slice(buf, hpos, 32)],
                                 hpos + 32))))

----------------------------------------------------------------------------
(* BootImage (types/image/boot.rs)                                          *)

BootImage_default ==
    [kind |-> "boot", keyblock |-> KeyBlock_default, header |-> ImageHeader_default,
     entry |-> EntryHeader_default, text |-> <<>>, hash |-> Fill(32, 255)]

\* build_segment_size taking the text length from the entry header
BootImage_build_segment_size_from_entry(self) ==
    LET new_size == self.entry.length + EntryHeader_binary_size
    IN new_size + (32 - (new_size % 32))

BootImage_build_segment_size(self) ==
    LET new_size == Len(self.text) + EntryHeader_binary_size
    IN new_size + (32 - (new_size % 32))

BootImage_set_segment_size(self, size) ==
    [self EXCEPT !.header.segment_size = size,
                 !.entry.length = size - EntryHeader_binary_size]

BootImage_signed_bytes(self) ==
    LET buffer == Fill(KeyBlock_binary_size + ImageHeader_binary_size
                       + BootImage_build_segment_size(self), 0)
        body == KeyBlock_write_to(self.keyblock) \o ImageHeader_write_to(self.header)
                \o EntryHeader_write_to(self.entry) \o self.text
        written == body \o write_aligned_optional(Len(body), 32, 0)
    IN Overlay(buffer, written)

BootImage_build_signature(self, key) ==
    IF ~IsSome(key) THEN Err("panic")
    ELSE Ok(hmac_sha256(key[1], BootImage_signed_bytes(self)))

BootImage_write_to(self) ==
    LET text_len == Len(self.text)
    IN WrOk(KeyBlock_write_to(self.keyblock) \o ImageHeader_write_to(self.header)
            \o EntryHeader_write_to(self.entry) \o self.text
            \o (IF self.header.segment_size > text_len
                THEN Fill(self.header.segment_size - text_len, 0) ELSE <<>>)
            \o self.hash)

\* from_stream::<BootImage>: read into BootImage::default() from position pos
BootImage_read_from(buf, pos) ==
    LET kb == KeyBlock_read_from(KeyBlock_default, buf, pos)
    IN IF ~kb.ok THEN RdErr(kb.err)
       ELSE LET hd == ImageHeader_read_from(ImageHeader_default, buf, kb.pos)
       IN IF ~hd.ok THEN RdErr(hd.err)
       ELSE LET en == EntryHeader_read_from(EntryHeader_default, buf, hd.pos)
       IN IF ~en.ok THEN RdErr(en.err)
       ELSE LET n == hd.val.segment_size - EntryHeader_binary_size
       IN IF n < 0 THEN RdErr("panic")
       ELSE IF IsHuge(hd.val.segment_size) \/ ~CanRead(buf, en.pos, n) THEN RdErr("IOError")
       ELSE LET hpos == skip_aligned(en.pos + n, 32)
       IN IF ~CanRead(buf, hpos, 32) THEN RdErr("IOError")
       ELSE RdOk([kind |-> "boot", keyblock |-> kb.val, header |-> hd.val, entry |-> en.val,
                  text |-> Slice(buf, en.pos, n), hash |-> Slice(buf, hpos, 32)],
                 hpos + 32)


----------------------------------------------------------------------------
(* Section (amebazii/types/section.rs)                                      *)

Section_default ==
    [header |-> SectionHeader_default, entry_header |-> EntryHeader_default, data |-> <<>>]

build_aligned_length(self) ==
    LET length == EntryHeader_binary_size + Len(self.data)
        alignment == length % 32
    IN IF alignment = 0 THEN length ELSE length + (32 - alignment)

build_aligned_size(self) == SectionHeader_binary_size + build_aligned_length(self)

\* the bytes a section appends to a writer whose stream position is pos
Section_write_to(self, pos) ==
    LET body == SectionHeader_write_to(self.header) \o EntryHeader_write_to(self.entry_header)
                \o self.data
    IN body \o write_aligned_optional(pos + Len(body), 32, 0)

Section_read_from(buf, pos) ==
    With(SectionHeader_read_from(SectionHeader_default, buf, pos), LAMBDA hd :
    IF ~hd.ok THEN RdErr(hd.err)
    ELSE With(EntryHeader_read_from(EntryHeader_default, buf, hd.pos), LAMBDA en :
    IF ~en.ok THEN RdErr(en.err)
    ELSE IF ~IsHuge(hd.val.length) /\ hd.val.length < 32 THEN RdErr("panic")
    ELSE IF IsHuge(hd.val.length) \/ ~CanRead(buf, en.pos, hd.val.length - 32)
         THEN RdErr("IOError")
    ELSE RdOk([header |-> hd.val, entry_header |-> en.val,
               data |-> Slice(buf, en.pos, hd.val.length - 32)],
              skip_aligned(en.pos + hd.val.length - 32, 32))))

RECURSIVE Sections_write_to(_, _)
\* EncryptedOr<Vec<Section>>::write_to, Plain case: the sections in order
Sections_write_to(sections, pos) ==
    IF sections = <<>> THEN <<>>
    ELSE LET first == Section_write_to(Head(sections), pos)
         IN first \o Sections_write_to(Tail(sections), pos + Len(first))

RECURSIVE Sections_read_from(_, _)
\* the loop of SubImage::read_from: sections until one has no next offset
Sections_read_from(buf, pos) ==
    With(Section_read_from(buf, pos), LAMBDA sec :
    IF ~sec.ok THEN RdErr(sec.err)
    ELSE IF ~SectionHeader_has_next(sec.val.header) THEN RdOk(<<sec.val>>, sec.pos)
    ELSE With(Sections_read_from(buf, sec.pos), LAMBDA rest :
         IF ~rest.ok THEN rest ELSE RdOk(<<sec.val>> \o rest.val, rest.pos)))

RECURSIVE SumAlignedSize(_)
SumAlignedSize(sections) ==
    IF sections = <<>> THEN 0
    ELSE build_aligned_size(Head(sections)) + SumAlignedSize(Tail(sections))

----------------------------------------------------------------------------
(* SubImage (types/image/ota.rs)                                            *)

SubImage_default ==
    [kind |-> "sub", header |-> ImageHeader_default, fst |-> Plain(FST_default),
     sections |-> Plain(<<>>), hash |-> Fill(32, 255)]

SubImage_build_segment_size(self) ==
    FST_binary_size
    + (IF is_encrypted(self.sections) THEN Len(self.sections.v)
       ELSE SumAlignedSize(self.sections.v))

EncryptedOrFST_write_to(fst) == IF is_encrypted(fst) THEN fst.v ELSE FST_write_to(fst.v)

EncryptedOrSections_write_to(sections, pos) ==
    IF is_encrypted(sections) THEN sections.v ELSE Sections_write_to(sections.v, pos)

\* header, FST and sections as written to a writer whose stream position is pos
SubImage_body(self, pos) ==
    LET head == ImageHeader_write_to(self.header) \o EncryptedOrFST_write_to(self.fst)
    IN head \o EncryptedOrSections_write_to(self.sections, pos + Len(head))

\* the scratch buffer build_signature fills and hashes
SubImage_signed_bytes(self) ==
    Overlay(Fill(ImageHeader_binary_size + SubImage_build_segment_size(self), 0),
            SubImage_body(self, 0))

SubImage_build_signature(self, key) ==
    LET hash_algo == IF is_encrypted(self.fst) THEN Some(HashSha256) ELSE self.fst.v.hash_algo
    IN IF IsSome(hash_algo) THEN compute_hash(hash_algo[1], SubImage_signed_bytes(self), key)
       ELSE Err("NotImplemented")

\* signature_from_stream over a stream at position pos
SubImage_signature_from_stream(self, buf, pos, algo, key) ==
    LET n == ImageHeader_binary_size + self.header.segment_size
    IN IF IsHuge(self.header.segment_size) \/ ~CanRead(buf, pos, n) THEN Err("IOError")
       ELSE compute_hash(algo, Slice(buf, pos, n), key)

SubImage_write_to(self, pos) ==
    LET body == SubImage_body(self, pos) \o self.hash
        align == IF ImageHeader_has_next(self.header) THEN 16384 ELSE 64
    IN body \o write_aligned_optional(pos + Len(body), align, 135)

\* from_stream::<SubImage>: read into SubImage::default() from position pos
SubImage_read_from(buf, pos) ==
    With(ImageHeader_read_from(ImageHeader_default, buf, pos), LAMBDA hd :
    IF ~hd.ok THEN RdErr(hd.err)
       ELSE LET align == IF ImageHeader_has_next(hd.val) THEN 16384 ELSE 64
                seg == hd.val.segment_size
       IN IF hd.val.is_encrypt
          THEN IF ~CanRead(buf, hd.pos, 96) THEN RdErr("IOError")
               ELSE IF ~IsHuge(seg) /\ seg < 96 THEN RdErr("panic")
               ELSE IF IsHuge(seg) \/ ~CanRead(buf, hd.pos + 96, seg - 96)
                    THEN RdErr("IOError")
               ELSE IF ~CanRead(buf, hd.pos + seg, 32) THEN RdErr("IOError")
               ELSE RdOk([kind |-> "sub", header |-> hd.val,
                          fst |-> Encrypted(Slice(buf, hd.pos, 96)),
                          sections |-> Encrypted(Slice(buf, hd.pos + 96, seg - 96)),
                          hash |-> Slice(buf, hd.pos + seg, 32)],
                         skip_aligned(hd.pos + seg + 32, align))
          ELSE With(FST_read_from(FST_default, buf, hd.pos), LAMBDA fst :
               IF ~fst.ok THEN RdErr(fst.err)
               ELSE With(Sections_read_from(buf, fst.pos), LAMBDA secs :
               IF ~secs.ok THEN RdErr(secs.err)
               ELSE IF ~CanRead(buf, secs.pos, 32) THEN RdErr("IOError")
               ELSE RdOk([kind |-> "sub", header |-> hd.val, fst |-> Plain(fst.val),
                          sections |-> Plain(secs.val),
                          hash |-> Slice(buf, secs.pos, 32)],
                         skip_aligned(secs.pos + 32, align)))))

----------------------------------------------------------------------------
(* OTAImage (types/image/ota.rs)                                            *)

OTAImage_default ==
    [kind |-> "ota", keyblock |-> KeyBlock_default, public_keys |-> [i \in 1..5 |-> None],
     subimages |-> <<>>, checksum |-> None]

\* build_ota_signature hashing the header and the FST of sub-image 0
OTAImage_build_ota_signature_with_fst(self, key) ==
    IF Len(self.subimages) = 0 THEN Err("NotImplemented")
    ELSE LET subimage == self.subimages[1]
         IN IF is_encrypted(subimage.fst) THEN Err("NotImplemented")
            ELSE IF ~IsSome(subimage.fst.v.hash_algo) THEN Err("NotImplemented")
            ELSE compute_hash(subimage.fst.v.hash_algo[1],
                              ImageHeader_write_to(subimage.header)
                              \o FST_write_to(subimage.fst.v), key)

OTAImage_build_ota_signature(self, key) ==
    IF Len(self.subimages) = 0 THEN Err("NotImplemented")
    ELSE LET subimage == self.subimages[1]
         IN IF is_encrypted(subimage.fst) THEN Err("NotImplemented")
            ELSE IF ~IsSome(subimage.fst.v.hash_algo) THEN Err("NotImplemented")
            ELSE compute_hash(subimage.fst.v.hash_algo[1],
                              ImageHeader_write_to(subimage.header), key)

----------------------------------------------------------------------------
(* Checksum (types/image/ota.rs).  A buffer is a sequence of runs           *)
(* [byte, count] of equal bytes, so that buffers whose byte sum passes 2^32 *)
(* can be drawn; a sum is kept as 16-bit halves [hi, lo], hi unbounded.     *)

RECURSIVE RunsLen(_)
\* buf.len()
RunsLen(runs) == IF runs = <<>> THEN 0 ELSE Head(runs).count + RunsLen(Tail(runs))

RECURSIVE RunsPrefix(_, _)
\* &buf[..n]
RunsPrefix(runs, n) ==
    IF n <= 0 \/ runs = <<>> THEN <<>>
    ELSE IF Head(runs).count >= n THEN <<[Head(runs) EXCEPT !.count = n]>>
    ELSE <<Head(runs)>> \o RunsPrefix(Tail(runs), n - Head(runs).count)

RECURSIVE ByteSum(_)
\* the sum of the bytes, not reduced
ByteSum(runs) ==
    IF runs = <<>> THEN [hi |-> 0, lo |-> 0]
    ELSE LET rest == ByteSum(Tail(runs))
             low == Head(runs).byte * (Head(runs).count % 65536)
             high == Head(runs).byte * (Head(runs).count \div 65536)
             lo == rest.lo + (low % 65536)
         IN [hi |-> rest.hi + high + (low \div 65536) + (lo \div 65536), lo |-> lo % 65536]

\* the u32 holding the low 32 bits of a sum
TruncateU32(sum) ==
    IF sum.hi % 65536 >= 32768 THEN ((sum.hi % 65536) - 65536) * 65536 + sum.lo
    ELSE (sum.hi % 65536) * 65536 + sum.lo

\* checksum_from_buffer: sum::<u32>() adds with the overflow checks of the build,
\* which panic (overflow_checks, the dev profile) or wrap (the release profile)
checksum_from_buffer(buf, overflow_checks) ==
    IF ByteSum(buf).hi >= 65536 /\ overflow_checks THEN Err("panic")
    ELSE Ok(TruncateU32(ByteSum(buf)))

\* checksum_from_stream: read_to_end, then the checksum of buffer[..buffer.len() - 4]
checksum_from_stream(stream, overflow_checks) ==
    IF RunsLen(stream) < 4 THEN Err("panic")
    ELSE checksum_from_buffer(RunsPrefix(stream, RunsLen(stream) - 4), overflow_checks)

RECURSIVE SubImages_write_to(_, _)
SubImages_write_to(subimages, pos) ==
    IF subimages = <<>> THEN <<>>
    ELSE LET first == SubImage_write_to(Head(subimages), pos)
         IN first \o SubImages_write_to(Tail(subimages), pos + Len(first))

RECURSIVE PublicKeys_write_to(_)
PublicKeys_write_to(keys) ==
    IF keys = <<>> THEN <<>> ELSE write_data(Head(keys), 32) \o PublicKeys_write_to(Tail(keys))

\* OTAImage::write_to on a writer whose stream position is pos
OTAImage_write_at(self, pos) ==
    LET head == KeyBlock_write_to(self.keyblock) \o PublicKeys_write_to(self.public_keys)
    IN WrOk(head \o SubImages_write_to(self.subimages, pos + Len(head))
            \o (IF IsSome(self.checksum) THEN LE32(self.checksum[1]) ELSE <<>>))

OTAImage_write_to(self) ==
    LET head == KeyBlock_write_to(self.keyblock) \o PublicKeys_write_to(self.public_keys)
    IN WrOk(head \o SubImages_write_to(self.subimages, Len(head))
            \o (IF IsSome(self.checksum) THEN LE32(self.checksum[1]) ELSE <<>>))

RECURSIVE SubImages_read_from(_, _)
\* the loop of OTAImage::read_from: sub-images until one has no next offset
SubImages_read_from(buf, pos) ==
    With(SubImage_read_from(buf, pos), LAMBDA sub :
    IF ~sub.ok THEN RdErr(sub.err)
    ELSE IF ~ImageHeader_has_next(sub.val.header) THEN RdOk(<<sub.val>>, sub.pos)
    ELSE With(SubImages_read_from(buf, sub.pos), LAMBDA rest :
         IF ~rest.ok THEN rest ELSE RdOk(<<sub.val>> \o rest.val, rest.pos)))

\* from_stream::<OTAImage>: read into OTAImage::default() from position 0
\* from_stream::<OTAImage> on a reader at position pos
OTAImage_read_at(buf, pos) ==
    LET kb == KeyBlock_read_from(KeyBlock_default, buf, pos)
    IN IF ~kb.ok THEN RdErr(kb.err)
       ELSE IF ~CanRead(buf, pos + 64, 160) THEN RdErr("IOError")
       ELSE LET keys == [i \in 1..5 |->
                            LET key == Slice(buf, pos + 64 + 32 * (i - 1), 32)
                            IN IF is_valid_data(key) THEN Some(key) ELSE None]
       IN With(SubImages_read_from(buf, pos + 224), LAMBDA subs :
          IF ~subs.ok THEN RdErr(subs.err)
          ELSE IF ~CanRead(buf, subs.pos, 4) THEN RdErr("IOError")
          ELSE LET checksum == U32At(buf, subs.pos)
               IN RdOk([kind |-> "ota", keyblock |-> kb.val, public_keys |-> keys,
                        subimages |-> subs.val,
                        checksum |-> IF checksum # U32MAX THEN Some(checksum) ELSE None],
                       subs.pos + 4))

OTAImage_read_from(buf) == OTAImage_read_at(buf, 0)


----------------------------------------------------------------------------
(* SystemData (amebazii/types/sysctrl.rs).  spi_cfg and flash_info hold the *)
(* packed u32 the structure writes.                                         *)

ForceOldImage_default == [pin |-> 0, port |-> 0, active |-> FALSE]

ForceOldImage_into(self) ==
    BitOr(BitOr(self.pin, self.port * 32, 16), BoolU8(self.active) * 128, 16)

\* SpiConfig::default().into()
SpiConfig_default == 0

\* FlashInfo::default().into()
FlashInfo_default == 0

SystemData_default ==
    [ota2_addr |-> None, ota2_size |-> None, old_img_trap |-> ForceOldImage_default,
     spi_cfg |-> SpiConfig_default, flash_info |-> FlashInfo_default, ulog_baud |-> U32MAX,
     spic_calibcfg |-> None, bt_parameter_data |-> None]

\* SystemData::write_to with 16 bytes more of padding before the Bluetooth data
SystemData_write_to_long_padding(self) ==
    LE32(IF IsSome(self.ota2_size) THEN self.ota2_size[1] ELSE U32MAX)
    \o LE32(IF IsSome(self.ota2_addr) THEN self.ota2_addr[1] ELSE U32MAX)
    \o LE32(ForceOldImage_into(self.old_img_trap))
    \o write_padding(20)
    \o LE32(self.spi_cfg)
    \o LE32(self.flash_info)
    \o write_padding(8)
    \o LE32(self.ulog_baud)
    \o write_padding(12)
    \o write_data(self.spic_calibcfg, 48)
    \o write_padding(3968)
    \o write_data(self.bt_parameter_data, 32)

\* ForceOldImage::from(value)
ForceOldImage_from(value) ==
    [pin |-> value % 32, port |-> (value \div 32) % 2, active |-> (value \div 128) % 2 = 1]

\* from_stream::<SystemData>: read into SystemData::default() from position pos
SystemData_read_from(buf, pos) ==
    IF ~CanRead(buf, pos, 4096) THEN RdErr("IOError")
    ELSE LET ota2_size == U32At(buf, pos)
             ota2_addr == U32At(buf, pos + 4)
         IN RdOk([ota2_addr |-> IF ota2_addr = U32MAX THEN None ELSE Some(ota2_addr),
                  ota2_size |-> IF ota2_size = U32MAX THEN None ELSE Some(ota2_size),
                  old_img_trap |-> ForceOldImage_from(U32At(buf, pos + 8)),
                  spi_cfg |-> U32At(buf, pos + 32),
                  flash_info |-> U32At(buf, pos + 36),
                  ulog_baud |-> U32At(buf, pos + 48),
                  spic_calibcfg |-> read_valid_data(None, Slice(buf, pos + 64, 48)),
                  bt_parameter_data |-> read_valid_data(None, Slice(buf, pos + 4064, 32))],
                 pos + 4096)

SystemData_write_to(self) ==
    LE32(IF IsSome(self.ota2_size) THEN self.ota2_size[1] ELSE U32MAX)
    \o LE32(IF IsSome(self.ota2_addr) THEN self.ota2_addr[1] ELSE U32MAX)
    \o LE32(ForceOldImage_into(self.old_img_trap))
    \o write_padding(20)
    \o LE32(self.spi_cfg)
    \o LE32(self.flash_info)
    \o write_padding(8)
    \o LE32(self.ulog_baud)
    \o write_padding(12)
    \o write_data(self.spic_calibcfg, 48)
    \o write_padding(3952)
    \o write_data(self.bt_parameter_data, 32)

----------------------------------------------------------------------------
(* Flash (amebazii/types/flash.rs).  partitions maps a PartitionType to     *)
(* None or Some(partition).                                                 *)

PartitionTable(image) == [tag |-> "PartitionTable", v |-> image]

Bootloader(image) == [tag |-> "Bootloader", v |-> image]

System(data) == [tag |-> "System", v |-> data]

Fw1(image) == [tag |-> "Fw1", v |-> image]

Fw2(image) == [tag |-> "Fw2", v |-> image]

User(raw) == [tag |-> "User", v |-> raw]

Var(raw) == [tag |-> "Var", v |-> raw]

Mp(raw) == [tag |-> "Mp", v |-> raw]

Calibration == [tag |-> "Calibration", v |-> <<>>]

Reserved == [tag |-> "Reserved", v |-> <<>>]

Flash_default ==
    [kind |-> "flash", calibration_pattern |-> Fill(16, 0),
     partitions |-> [t \in PartitionTypeCodes |-> None]]

set_partition(self, part_type, partition) ==
    [self EXCEPT !.partitions[part_type] = Some(partition)]

set_system_partition(self, system_data) == set_partition(self, PT_Sys, System(system_data))

set_boot_partition(self, boot_image) == set_partition(self, PT_Boot, Bootloader(boot_image))

set_partition_table(self, pt_image) ==
    set_partition(self, PT_PartTab, PartitionTable(pt_image))

\* Partition::write_to on a writer whose stream position is pos
Partition_write_to(partition, pos) ==
    CASE partition.tag = "PartitionTable" -> PartitionTableImage_write_to(partition.v)
      [] partition.tag = "Bootloader" -> BootImage_write_to(partition.v)
      [] partition.tag = "System" -> WrOk(SystemData_write_to(partition.v))
      [] partition.tag \in {"Fw1", "Fw2"} -> OTAImage_write_at(partition.v, pos)
      [] partition.tag \in {"User", "Var", "Mp"} -> WrOk(partition.v)
      [] partition.tag \in {"Calibration", "Reserved"} -> WrOk(<<>>)

\* read_raw_image: read_to_end from position pos
read_raw_image(buf, pos) ==
    IF IsHuge(pos) \/ pos >= Len(buf) THEN <<>> ELSE Slice(buf, pos, Len(buf) - pos)

\* Partition::from_record on a reader that Flash::read_from moved to
\* record.start_addr
from_record(record, buf) ==
    IF record.part_type \in {PT_Cal, PT_Rdp}
    THEN RdOk(IF record.part_type = PT_Cal THEN Calibration ELSE Reserved, record.start_addr)
    ELSE IF record.part_type \in {PT_User, PT_Var, PT_MP}
    THEN RdOk([tag |-> CASE record.part_type = PT_User -> "User"
                         [] record.part_type = PT_Var -> "Var"
                         [] record.part_type = PT_MP -> "Mp",
               v |-> read_raw_image(buf, record.start_addr)], Len(buf))
    ELSE IF IsHuge(record.start_addr) THEN RdErr("IOError")
    ELSE IF record.part_type = PT_PartTab
    THEN With(PartitionTableImage_read_from(buf, record.start_addr), LAMBDA r :
           IF r.ok THEN RdOk(PartitionTable(r.val), r.pos) ELSE RdErr(r.err))
    ELSE IF record.part_type = PT_Boot
    THEN With(BootImage_read_from(buf, record.start_addr), LAMBDA r :
           IF r.ok THEN RdOk(Bootloader(r.val), r.pos) ELSE RdErr(r.err))
    ELSE IF record.part_type \in {PT_Fw1, PT_Fw2}
    THEN With(OTAImage_read_at(buf, record.start_addr), LAMBDA r :
           IF ~r.ok THEN RdErr(r.err)
           ELSE RdOk(IF record.part_type = PT_Fw1 THEN Fw1(r.val) ELSE Fw2(r.val), r.pos))
    ELSE IF record.part_type = PT_Sys
    THEN With(SystemData_read_from(buf, record.start_addr), LAMBDA r :
           IF r.ok THEN RdOk(System(r.val), r.pos) ELSE RdErr(r.err))
    ELSE RdErr("InvalidEnumValue")

\* fill_to_offset writing nothing when the stream is past offset
fill_to_offset_past(pos, offset) ==
    IF ~IsHuge(offset) /\ pos > offset THEN WrOk(<<>>)
    ELSE WrOk(Fill(offset - pos, 255))

\* fill_to_offset: the padding up to offset, InvalidState when the stream is past it
fill_to_offset(pos, offset) ==
    IF ~IsHuge(offset) /\ pos > offset THEN WrErr("InvalidState", <<>>)
    ELSE WrOk(Fill(offset - pos, 255))

\* write_partition appending to the stream written so far
write_partition(self, stream, pt, part_type) ==
    With(stream, LAMBDA written :
    IF ~written.ok \/ ~has_record(pt, part_type) THEN written
    ELSE LET record == pt.records[record_index(pt, part_type)]
         IN With(fill_to_offset(Len(written.bytes), record.start_addr), LAMBDA fill :
            IF ~fill.ok THEN WrErr(fill.err, written.bytes)
            ELSE IF ~IsSome(self.partitions[record.part_type])
            THEN WrErr("InvalidState", written.bytes \o fill.bytes)
            ELSE With(Partition_write_to(self.partitions[record.part_type][1],
                                         Len(written.bytes) + Len(fill.bytes)), LAMBDA w :
                 [w EXCEPT !.bytes = written.bytes \o fill.bytes \o @])))

\* Flash::write_to leaving the system partition out when there is none
Flash_write_to_optional_system(self) ==
    LET head == self.calibration_pattern \o write_padding(16)
        pt_image == self.partitions[PT_PartTab]
        system == self.partitions[PT_Sys]
    IN IF ~IsSome(pt_image) THEN WrErr("InvalidState", head)
       ELSE LET table == Partition_write_to(pt_image[1], Len(head))
                first == head \o table.bytes
                aligned == first \o write_aligned(Len(first), 4096, 0)
            IN IF ~table.ok THEN WrErr(table.err, first)
               ELSE LET sys == IF IsSome(system) THEN Partition_write_to(system[1], Len(aligned))
                               ELSE WrOk(<<>>)
                        fixed == aligned \o sys.bytes \o write_padding(8192)
                    IN IF ~sys.ok THEN WrErr(sys.err, aligned \o sys.bytes)
                       ELSE IF pt_image[1].tag # "PartitionTable" THEN WrOk(fixed)
                       ELSE IF is_encrypted(pt_image[1].v.pt)
                       THEN WrErr("NotImplemented", fixed)
                       ELSE LET pt == pt_image[1].v.pt.v
                            IN write_partition(self,
                                 write_partition(self,
                                   write_partition(self,
                                     write_partition(self, WrOk(fixed), pt, PT_Boot),
                                     pt, PT_Fw1),
                                   pt, PT_Fw2),
                                 pt, PT_User)

Flash_write_to(self) ==
    LET head == self.calibration_pattern \o write_padding(16)
        pt_image == self.partitions[PT_PartTab]
        system == self.partitions[PT_Sys]
    IN IF ~IsSome(pt_image) THEN WrErr("InvalidState", head)
       ELSE LET table == Partition_write_to(pt_image[1], Len(head))
                first == head \o table.bytes
                aligned == first \o write_aligned(Len(first), 4096, 0)
            IN IF ~table.ok THEN WrErr(table.err, first)
               ELSE IF ~IsSome(system) THEN WrErr("InvalidState", aligned)
               ELSE LET sys == Partition_write_to(system[1], Len(aligned))
                        fixed == aligned \o sys.bytes \o write_padding(8192)
                    IN IF ~sys.ok THEN WrErr(sys.err, aligned \o sys.bytes)
                       ELSE IF pt_image[1].tag # "PartitionTable" THEN WrOk(fixed)
                       ELSE IF is_encrypted(pt_image[1].v.pt)
                       THEN WrErr("NotImplemented", fixed)
                       ELSE LET pt == pt_image[1].v.pt.v
                            IN write_partition(self,
                                 write_partition(self,
                                   write_partition(self,
                                     write_partition(self, WrOk(fixed), pt, PT_Boot),
                                     pt, PT_Fw1),
                                   pt, PT_Fw2),
                                 pt, PT_User)

RECURSIVE Flash_read_records(_, _, _)
\* the loop of Flash::read_from over the records of the decoded table
Flash_read_records(self, records, buf) ==
    IF records = <<>> THEN Ok(self)
    ELSE With(from_record(Head(records), buf), LAMBDA r :
           IF ~r.ok THEN Err(r.err)
           ELSE Flash_read_records(set_partition(self, Head(records).part_type, r.val),
                                   Tail(records), buf))

\* from_stream::<Flash>: read into Flash::default() from position 0
Flash_read_from(buf) ==
    IF ~CanRead(buf, 0, 16) THEN Err("IOError")
    ELSE With(PartitionTableImage_read_from(buf, 32), LAMBDA image :
           IF ~image.ok THEN Err(image.err)
           ELSE With(IF is_encrypted(image.val.pt)
                     THEN Ok([Flash_default EXCEPT !.calibration_pattern = Slice(buf, 0, 16)])
                     ELSE Flash_read_records(
                            [Flash_default EXCEPT !.calibration_pattern = Slice(buf, 0, 16)],
                            image.val.pt.v.records, buf),
                     LAMBDA read :
                  IF ~read.ok THEN read
                  ELSE Ok(set_partition_table(read.val, image.val))))

----------------------------------------------------------------------------
(* Codec specification: the helpers and fixed-size structures applied to    *)
(* inputs drawn from bounded sets                                           *)

\* 32 bytes of 0xFF with byte p (1-based, 0 for none) replaced by v
OneOff(p, v) == [i \in 1..32 |-> IF i = p THEN v ELSE 255]

BufInputs == {OneOff(p, v) : p \in 0..32, v \in {0, 1, 254}} \cup {Fill(32, 0), Fill(32, 17)}

KeyInputs == {None, Some(Fill(32, 255)), Some(Fill(32, 17)), Some(OneOff(32, 0))}

RecordInputs ==
    [start_addr : {0, 16384, U32MAX}, length : {0, 32768}, part_type : {0, 1, 9},
     dbg_skip : BOOLEAN, hash_key : KeyInputs]

KeyBlockInputs == [enc_pubkey : {Fill(32, 255), Fill(32, 1)}, hash_pubkey : {Fill(32, 255), Fill(32, 2)}]

ImageHeaderInputs ==
    [segment_size : {0, 320}, next_offset : {U32MAX, 16384}, img_type : {0, 1, 63},
     is_encrypt : BOOLEAN, serial : {U32MAX, 1},
     user_key1 : {Fill(32, 255), Fill(32, 3)}, user_key2 : {Fill(32, 255), Fill(32, 4)}]

SectionHeaderInputs ==
    [length : {32, 37}, next_offset : {U32MAX, 192}, sect_type : {128, 133},
     sce_enabled : {FALSE}, xip_page_size : {0, 2}, xip_block_size : {0},
     valid_pattern : {<<0, 1, 2, 3, 4, 5, 6, 7>>},
     xip_key : {Fill(16, 255), Fill(16, 5)}, xip_iv : {Fill(16, 255), Fill(16, 6)}]

EntryHeaderInputs ==
    [length : {0, 32}, load_address : {0, 268435456}, entry_address : {None, Some(0), Some(268435456)}]

FSTInputs ==
    [enc_algo : {None, Some(1)}, hash_algo : {None, Some(HashMd5), Some(HashSha256)},
     partition_size : {0, 4096}, valid_pattern : {<<0, 1, 2, 3, 4, 5, 6, 7>>},
     cipher_key : {None, Some(Fill(32, 7))}, cipher_iv : {None, Some(Fill(16, 8))}]

TrapConfigInputs == [valid : BOOLEAN, level : {0, 1, 2}, port : {0, 3, 4, 7, 8}, pin : {0, 17, 31, 32}]

Run(b, n) == [byte |-> b, count |-> n]

\* buffers of 0, 3, 4, 5 and 9 bytes, and buffers of 0xFF whose byte sum is 2^32 - 1
\* and 2^32 + 254
BufferInputs ==
    {<<>>, <<Run(1, 3)>>, <<Run(9, 4)>>, <<Run(1, 1), Run(2, 1), Run(3, 3)>>,
     <<Run(200, 5), Run(7, 4)>>,
     <<Run(255, 16843009)>>, <<Run(255, 16843009), Run(0, 4)>>,
     <<Run(255, 16843010)>>, <<Run(255, 16843010), Run(135, 4)>>}

\* stream positions on, next to and between multiples of the alignments
PositionInputs ==
    [pos : {0, 1, 15, 16, 31, 32, 33, 64, 100, 4095, 4096, 4097, 8192},
     align : {16, 32, 64, 4096}, fill : {0, 135}]

\* user data of n bytes, no two neighbours equal
UserData(n) == [i \in 1..n |-> i % 251]

\* tables of 1, 2 and 5 records with 0 to 300 bytes of user data
PartTabInputs ==
    {[PartTab_default EXCEPT !.records = [i \in 1..n |-> [Record_default EXCEPT
                                                            !.part_type = i % 10,
                                                            !.start_addr = 4096 * i]],
                             !.user_bin = UserData(u)] :
        n \in {1, 2, 5}, u \in {0, 5, 255, 256, 257, 300}}

\* values of an on-disk user_len field past the 256 bytes a table holds
UserLenInputs == {257, 300, 65536, U32MAX}

\* a disjunction, not a union: the inputs of different types are not comparable
IsCodecInput(c) ==
    \/ c \in {[type |-> "PartTab", v |-> t] : t \in PartTabInputs}
    \/ c \in {[type |-> "position", v |-> a] : a \in PositionInputs}
    \/ c \in {[type |-> "TrapConfig", v |-> t] : t \in TrapConfigInputs}
    \/ c \in {[type |-> "buffer", v |-> b] : b \in BufferInputs}
    \/ c \in {[type |-> "buf", v |-> b] : b \in BufInputs}
    \/ c \in {[type |-> "opt", v |-> k] : k \in KeyInputs}
    \/ c \in {[type |-> "Record", v |-> r] : r \in RecordInputs}
    \/ c \in {[type |-> "KeyBlock", v |-> k] : k \in KeyBlockInputs}
    \/ c \in {[type |-> "ImageHeader", v |-> h] : h \in ImageHeaderInputs}
    \/ c \in {[type |-> "SectionHeader", v |-> h] : h \in SectionHeaderInputs}
    \/ c \in {[type |-> "EntryHeader", v |-> h] : h \in EntryHeaderInputs}
    \/ c \in {[type |-> "FST", v |-> f] : f \in FSTInputs}

binary_size(type) ==
    CASE type = "KeyBlock" -> KeyBlock_binary_size
      [] type = "Record" -> Record_binary_size
      [] type = "FST" -> FST_binary_size
      [] type = "ImageHeader" -> ImageHeader_binary_size
      [] type = "SectionHeader" -> SectionHeader_binary_size
      [] type = "EntryHeader" -> EntryHeader_binary_size

NoRes == [op |-> "none", res |-> Ok(<<>>)]

\* a Record read into Record::default(): hash_key starts as None
ReadValidData ==
    /\ cval.type = "buf"
    /\ cres.op = "none"
    /\ cres' = [op |-> "read_valid_data", res |-> Ok(read_valid_data(None, cval.v))]
    /\ UNCHANGED <<cval, cbytes, imageVars, otaVars, flashVars>>

WriteData ==
    /\ cval.type = "opt"
    /\ cres.op = "none"
    /\ cbytes' = write_data(cval.v, 32)
    /\ cres' = [op |-> "write_data", res |-> Ok(<<>>)]
    /\ UNCHANGED <<cval, imageVars, otaVars, flashVars>>

EncodeKeyBlock ==
    /\ cval.type = "KeyBlock"
    /\ cres.op = "none"
    /\ cbytes' = KeyBlock_write_to(cval.v)
    /\ cres' = [op |-> "encode", res |-> Ok(<<>>)]
    /\ UNCHANGED <<cval, imageVars, otaVars, flashVars>>

EncodeRecord ==
    /\ cval.type = "Record"
    /\ cres.op = "none"
    /\ cbytes' = Record_write_to(cval.v)
    /\ cres' = [op |-> "encode", res |-> Ok(<<>>)]
    /\ UNCHANGED <<cval, imageVars, otaVars, flashVars>>

EncodeFST ==
    /\ cval.type = "FST"
    /\ cres.op = "none"
    /\ cbytes' = FST_write_to(cval.v)
    /\ cres' = [op |-> "encode", res |-> Ok(<<>>)]
    /\ UNCHANGED <<cval, imageVars, otaVars, flashVars>>

EncodeImageHeader ==
    /\ cval.type = "ImageHeader"
    /\ cres.op = "none"
    /\ cbytes' = ImageHeader_write_to(cval.v)
    /\ cres' = [op |-> "encode", res |-> Ok(<<>>)]
    /\ UNCHANGED <<cval, imageVars, otaVars, flashVars>>

EncodeSectionHeader ==
    /\ cval.type = "SectionHeader"
    /\ cres.op = "none"
    /\ cbytes' = SectionHeader_write_to(cval.v)
    /\ cres' = [op |-> "encode", res |-> Ok(<<>>)]
    /\ UNCHANGED <<cval, imageVars, otaVars, flashVars>>

EncodeEntryHeader ==
    /\ cval.type = "EntryHeader"
    /\ cres.op = "none"
    /\ cbytes' = EntryHeader_write_to(cval.v)
    /\ cres' = [op |-> "encode", res |-> Ok(<<>>)]
    /\ UNCHANGED <<cval, imageVars, otaVars, flashVars>>

\* from_stream::<Record> over the bytes just written
DecodeRecord ==
    /\ cval.type = "Record"
    /\ cres.op = "encode"
    /\ LET r == Record_read_from(Record_default, cbytes, 0)
       IN cres' = [op |-> "decode", res |-> [ok |-> r.ok, err |-> r.err, val |-> r.val]]
    /\ UNCHANGED <<cval, cbytes, imageVars, otaVars, flashVars>>

\* let value: u16 = trap.into()
EncodeTrapConfig ==
    /\ cval.type = "TrapConfig"
    /\ cres.op = "none"
    /\ cbytes' = LE16(TrapConfig_into(cval.v))
    /\ cres' = [op |-> "into", res |-> Ok(TrapConfig_into(cval.v))]
    /\ UNCHANGED <<cval, imageVars, otaVars, flashVars>>

\* TrapConfig::from(value) of the value just encoded
DecodeTrapConfig ==
    /\ cval.type = "TrapConfig"
    /\ cres.op = "into"
    /\ cres' = [op |-> "from", res |-> Ok(TrapConfig_from(U16At(cbytes, 0)))]
    /\ UNCHANGED <<cval, cbytes, imageVars, otaVars, flashVars>>

\* OTAImage::checksum_from_buffer(&buf) in a build with or without overflow checks
ChecksumFromBuffer ==
    /\ cval.type = "buffer"
    /\ cres.op = "none"
    /\ \E overflow_checks \in BOOLEAN :
          cres' = [op |-> "checksum_from_buffer",
                   res |-> checksum_from_buffer(cval.v, overflow_checks)]
    /\ UNCHANGED <<cval, cbytes, imageVars, otaVars, flashVars>>

\* OTAImage::checksum_from_stream(&mut reader) over a stream holding the buffer
ChecksumFromStream ==
    /\ cval.type = "buffer"
    /\ cres.op = "none"
    /\ \E overflow_checks \in BOOLEAN :
          cres' = [op |-> "checksum_from_stream",
                   res |-> checksum_from_stream(cval.v, overflow_checks)]
    /\ UNCHANGED <<cval, cbytes, imageVars, otaVars, flashVars>>

\* skip_aligned(&mut reader, align) on a reader at position pos
SkipAligned ==
    /\ cval.type = "position"
    /\ cres.op = "none"
    /\ cres' = [op |-> "skip_aligned", res |-> Ok(skip_aligned(cval.v.pos, cval.v.align))]
    /\ UNCHANGED <<cval, cbytes, imageVars, otaVars, flashVars>>

\* write_aligned!(writer, align, fill, optional) on a writer at position pos
WriteAlignedOptional ==
    /\ cval.type = "position"
    /\ cres.op = "none"
    /\ cbytes' = write_aligned_optional(cval.v.pos, cval.v.align, cval.v.fill)
    /\ cres' = [op |-> "write_aligned_optional", res |-> Ok(cval.v.pos + Len(cbytes'))]
    /\ UNCHANGED <<cval, imageVars, otaVars, flashVars>>

\* write_aligned!(writer, align, fill) on a writer at position pos
WriteAligned ==
    /\ cval.type = "position"
    /\ cres.op = "none"
    /\ cbytes' = write_aligned(cval.v.pos, cval.v.align, cval.v.fill)
    /\ cres' = [op |-> "write_aligned", res |-> Ok(cval.v.pos + Len(cbytes'))]
    /\ UNCHANGED <<cval, imageVars, otaVars, flashVars>>

\* to_bytes(&part_tab)
WritePartTab ==
    /\ cval.type = "PartTab"
    /\ cres.op = "none"
    /\ cbytes' = PartTab_write_to(cval.v).bytes
    /\ cres' = [op |-> "write_parttab", res |-> Ok(<<>>)]
    /\ UNCHANGED <<cval, imageVars, otaVars, flashVars>>

\* a stream whose user_len field (offset 0x10) holds more than the table's user data
PatchUserLen ==
    /\ cval.type = "PartTab"
    /\ cres.op = "write_parttab"
    /\ \E user_len \in UserLenInputs :
          cbytes' = [i \in 1..Len(cbytes) |->
                       IF i \in 17..20 THEN LE32(user_len)[i - 16] ELSE cbytes[i]]
    /\ cres' = [op |-> "patch_user_len", res |-> Ok(<<>>)]
    /\ UNCHANGED <<cval, imageVars, otaVars, flashVars>>

\* from_stream::<PartTab> over the stream
ReadPartTab ==
    /\ cval.type = "PartTab"
    /\ cres.op \in {"write_parttab", "patch_user_len"}
    /\ LET r == PartTab_read_from(cbytes, 0)
       IN cres' = [op |-> "read_parttab", res |-> [ok |-> r.ok, err |-> r.err, val |-> r.val]]
    /\ UNCHANGED <<cval, cbytes, imageVars, otaVars, flashVars>>

CodecIdle == cval = [type |-> "idle", v |-> <<>>] /\ cbytes = <<>> /\ cres = NoRes

ImageIdle ==
    /\ img = [kind |-> "idle"] /\ file = None /\ edits = 0
    /\ ret = [op |-> "none", key |-> None, res |-> Ok(<<>>)]
    /\ prep = [sized |-> FALSE, key |-> None]

OtaIdle == ota = [kind |-> "idle"] /\ ofile = None /\ oret = NoRes

FlashIdle == flash = [kind |-> "idle"] /\ ffile = None /\ fret = NoRes

CodecInit ==
    /\ IsCodecInput(cval)
    /\ cbytes = <<>>
    /\ cres = NoRes
    /\ ImageIdle
    /\ OtaIdle
    /\ FlashIdle

CodecNext ==
    \/ ReadValidData
    \/ WriteData
    \/ EncodeKeyBlock
    \/ EncodeRecord
    \/ EncodeFST
    \/ EncodeImageHeader
    \/ EncodeSectionHeader
    \/ EncodeEntryHeader
    \/ DecodeRecord
    \/ EncodeTrapConfig
    \/ DecodeTrapConfig
    \/ ChecksumFromBuffer
    \/ ChecksumFromStream
    \/ WritePartTab
    \/ PatchUserLen
    \/ ReadPartTab
    \/ SkipAligned
    \/ WriteAlignedOptional
    \/ WriteAligned


----------------------------------------------------------------------------
(* Properties of the codec specification                                    *)

AllFF(buf) == \A i \in 1..Len(buf) : buf[i] = 255

\* C1: the 32-byte optional-field reader yields None when all 32 bytes are 0xFF and
\* Some(bytes) when at least one byte differs from 0xFF, and the optional-field writer
\* given None emits exactly 32 bytes of 0xFF.
C1_OptionalFieldSentinel ==
    /\ cres.op = "read_valid_data" =>
          cres.res.val = (IF AllFF(cval.v) THEN None ELSE Some(cval.v))
    /\ (cres.op = "write_data" /\ cval.v = None) => cbytes = Fill(32, 255)

\* C2: for every Record whose hash_key is None or a key with a byte other than 0xFF,
\* decoding the 64 bytes written by encode yields an equal Record.
C2_RecordRoundTrip ==
    (cres.op = "decode" /\ cval.type = "Record"
        /\ (cval.v.hash_key = None \/ hash_key_valid(cval.v)))
    => (cres.res.ok /\ cres.res.val = cval.v)

\* C3: encode of KeyBlock, Record, FST, ImageHeader, SectionHeader and EntryHeader writes
\* exactly binary_size() bytes (64, 64, 96, 96, 96 and 32).
C3_EncodeWritesBinarySize ==
    cres.op = "encode" => Len(cbytes) = binary_size(cval.type)

\* C18: checksum_from_buffer(buf) is the sum of all bytes of buf reduced modulo
\* 2^32 for every buffer (the sum never fails on overflow), and
\* checksum_from_stream returns that sum taken over all bytes of the stream
\* except the last 4.
C18_ChecksumIsByteSum ==
    /\ cres.op = "checksum_from_buffer"
          => (cres.res.ok /\ cres.res.val = TruncateU32(ByteSum(cval.v)))
    /\ cres.op = "checksum_from_stream"
          => /\ cres.res.ok
             /\ cres.res.val = TruncateU32(ByteSum(RunsPrefix(cval.v, RunsLen(cval.v) - 4)))

\* the user_len field of the stream, clamped as a u32 to 256
ClampedUserLen ==
    IF IsHuge(U32At(cbytes, 16)) \/ U32At(cbytes, 16) > 256 THEN 256 ELSE U32At(cbytes, 16)

\* the offset of the first byte after the records of the stream
RecordsEnd == 32 + Record_binary_size * (U8At(cbytes, 4) + 1)

\* C23: PartTab decode never fails because user_len is large: it yields
\* user_bin of exactly min(user_len, 256) bytes taken from the bytes following
\* the records, and PartTab encode writes the user_len field as len(user_bin);
\* hence decode(encode(pt)).user_bin = pt.user_bin whenever
\* len(pt.user_bin) <= 256.
C23_UserLenClamp ==
    /\ cres.op = "write_parttab" => U32At(cbytes, 16) = Len(cval.v.user_bin)
    /\ (cres.op = "read_parttab" /\ CanRead(cbytes, RecordsEnd, ClampedUserLen))
          => /\ cres.res.ok
             /\ Len(cres.res.val.user_bin) = ClampedUserLen
             /\ cres.res.val.user_bin = Slice(cbytes, RecordsEnd, ClampedUserLen)
    /\ (cres.op = "read_parttab" /\ cbytes = PartTab_write_to(cval.v).bytes
        /\ Len(cval.v.user_bin) <= 256)
          => (cres.res.ok /\ cres.res.val.user_bin = cval.v.user_bin)

\* a stream with user_len = 0xFFFFFFFF over 300 bytes of user data
C23_Witness ==
    /\ cres.op = "read_parttab"
    /\ U32At(cbytes, 16) = U32MAX
    /\ Len(cval.v.user_bin) = 300
    /\ cres.res.ok
    /\ Len(cres.res.val.user_bin) = 256
    /\ cres.res.val.user_bin = SubSeq(cval.v.user_bin, 1, 256)

\* the smallest multiple of a that is >= p
NextMultiple(p, a) == CHOOSE m \in p..(p + a) : m % a = 0 /\ \A k \in p..(m - 1) : k % a # 0

\* C22: for every stream position p and alignment A, skip_aligned and the
\* writer write_aligned! leave the position at the smallest multiple of A that
\* is >= p: nothing is moved or written when p is a multiple of A, otherwise
\* the position advances by A - (p mod A), the writer emitting that many fill
\* bytes.
C22_AlignToNextMultiple ==
    /\ cres.op = "skip_aligned"
          => cres.res.val = NextMultiple(cval.v.pos, cval.v.align)
    /\ cres.op \in {"write_aligned_optional", "write_aligned"}
          => /\ cres.res.val = NextMultiple(cval.v.pos, cval.v.align)
             /\ cbytes = Fill(NextMultiple(cval.v.pos, cval.v.align) - cval.v.pos, cval.v.fill)
             /\ cval.v.pos % cval.v.align = 0 => cbytes = <<>>
             /\ cval.v.pos % cval.v.align # 0
                   => Len(cbytes) = cval.v.align - (cval.v.pos % cval.v.align)

\* the fields are within their bits: level in 1 bit, port in 3, pin in 5
TrapConfigInRange(t) == t.level <= 1 /\ t.port <= 7 /\ t.pin <= 31

\* C19: TrapConfig{valid: true, level: 1, port: 3, pin: 17} encodes to 0x8171,
\* and for every TrapConfig t with level <= 1, port <= 7 and pin <= 31,
\* decode(encode(t)) = t, where valid is bit 15, level bit 8, port bits 5-7
\* and pin bits 0-4.
C19_TrapConfigRoundTrip ==
    /\ (cres.op = "into" /\ cval.v = [valid |-> TRUE, level |-> 1, port |-> 3, pin |-> 17])
          => cres.res.val = 33137
    /\ (cres.op = "into" /\ TrapConfigInRange(cval.v))
          => cres.res.val = BoolU8(cval.v.valid) * 32768 + cval.v.level * 256
                            + cval.v.port * 32 + cval.v.pin
    /\ (cres.op = "from" /\ TrapConfigInRange(cval.v)) => cres.res.val = cval.v

C19_Witness ==
    /\ cres.op = "from"
    /\ cval.v = [valid |-> TRUE, level |-> 1, port |-> 3, pin |-> 17]
    /\ cbytes = <<113, 129>>
    /\ cres.res.val = cval.v


----------------------------------------------------------------------------
(* Image specification: one image (PartitionTableImage, BootImage or        *)
(* SubImage) built through its public fields and setters, sized and signed  *)
(* through the AsImage functions, encoded and decoded.  `file` holds the    *)
(* stream written by the latest encode of the image as it is now; `ret` is  *)
(* the latest call, its key argument and what it returned.  `prep` records  *)
(* whether set_default_segment_size was applied since the last edit and the *)
(* key of a set_default_signature applied after it.  A panic ends the run.  *)

MaxEdits == 2

HASH_KEY ==
    <<71, 229, 102, 19, 53, 164, 197, 224, 169, 77, 105, 243, 199, 55, 213, 79,
      35, 131, 121, 19, 50, 147, 151, 83, 239, 36, 39, 150, 8, 246, 215, 43>>

SignKeyInputs == {None, Some(HASH_KEY)}

AddrInputs == {16384, 16777216 + 16384}

UserBinInputs == {Fill(15, 170), Fill(17, 187)}

BlobInputs == {Fill(32, 238), Fill(40, 238)}

TextInputs == {<<1, 2, 3>>, Fill(32, 9)}

SectionInputs ==
    {[Section_default EXCEPT !.data = d, !.header.length = 32 + Len(d),
                             !.entry_header.length = Len(d)] : d \in {<<>>, <<1, 2, 3, 4, 5>>}}

Running == ret.res.err # "panic"

Unprepared == [sized |-> FALSE, key |-> None]

Call(op, key, res) == [op |-> op, key |-> key, res |-> res]

build_segment_size(image) ==
    CASE image.kind = "pt" -> PartitionTableImage_build_segment_size(image)
      [] image.kind = "boot" -> BootImage_build_segment_size(image)
      [] image.kind = "sub" -> SubImage_build_segment_size(image)

set_segment_size(image, size) ==
    IF image.kind = "boot" THEN BootImage_set_segment_size(image, size)
    ELSE [image EXCEPT !.header.segment_size = size]

build_signature(image, key) ==
    CASE image.kind = "pt" -> PartitionTableImage_build_signature(image, key)
      [] image.kind = "boot" -> BootImage_build_signature(image, key)
      [] image.kind = "sub" -> SubImage_build_signature(image, key)

\* set_signature: hash.copy_from_slice(signature) panics unless the lengths agree
set_signature(image, signature) ==
    IF Len(signature) = 32 THEN Ok([image EXCEPT !.hash = signature]) ELSE Err("panic")

write_to(image) ==
    CASE image.kind = "pt" -> PartitionTableImage_write_to(image)
      [] image.kind = "boot" -> BootImage_write_to(image)
      [] image.kind = "sub" -> WrOk(SubImage_write_to(image, 0))

\* from_stream of the image type over a stream at position 0
read_from(kind, buf) ==
    CASE kind = "pt" -> PartitionTableImage_read_from(buf, 0)
      [] kind = "boot" -> BootImage_read_from(buf, 0)
      [] kind = "sub" -> SubImage_read_from(buf, 0)

Edit(op, image) ==
    /\ Running
    /\ edits < MaxEdits
    /\ img' = image
    /\ edits' = edits + 1
    /\ file' = None
    /\ ret' = Call(op, None, Ok(<<>>))
    /\ prep' = Unprepared
    /\ UNCHANGED <<codecVars, otaVars, flashVars>>

NewRecord ==
    /\ img.kind = "pt" /\ ~is_encrypted(img.pt)
    /\ \E t \in {PT_Boot, PT_Fw1} :
          Edit("new_record", [img EXCEPT !.pt.v = new_record(@, t)])

SetStartAddr ==
    /\ img.kind = "pt" /\ ~is_encrypted(img.pt)
    /\ \E t \in {PT_Boot, PT_Fw1}, a \in AddrInputs :
          /\ has_record(img.pt.v, t)
          /\ img.pt.v.records[record_index(img.pt.v, t)].start_addr # a
          /\ Edit("set_start_addr",
                  [img EXCEPT !.pt.v.records[record_index(img.pt.v, t)].start_addr = a])

SetUserBin ==
    /\ img.kind = "pt" /\ ~is_encrypted(img.pt)
    /\ \E b \in UserBinInputs : Edit("set_user_bin", [img EXCEPT !.pt.v = set_user_bin(@, b)])

SetEncryptedPt ==
    /\ img.kind = "pt"
    /\ \E b \in BlobInputs :
          /\ ~(is_encrypted(img.pt) /\ img.pt.v = b)
          /\ Edit("set_pt", [img EXCEPT !.pt = Encrypted(b)])

SetText ==
    /\ img.kind = "boot"
    /\ \E t \in TextInputs :
          /\ img.text # t
          /\ Edit("set_text", [img EXCEPT !.text = t])

AddSection ==
    /\ img.kind = "sub" /\ ~is_encrypted(img.sections)
    /\ \E sec \in SectionInputs :
          Edit("add_section", [img EXCEPT !.sections.v = Append(@, sec)])

SetHashAlgo ==
    /\ img.kind = "sub" /\ ~is_encrypted(img.fst)
    /\ \E a \in {None, Some(HashMd5)} :
          /\ img.fst.v.hash_algo # a
          /\ Edit("set_hash_algo", [img EXCEPT !.fst.v.hash_algo = a])

FstBlobInputs == {Fill(96, 204)}

\* image.fst = EncryptedOr::Encrypted(blob)
SetEncryptedFst ==
    /\ img.kind = "sub" /\ ~is_encrypted(img.fst)
    /\ \E b \in FstBlobInputs : Edit("set_fst", [img EXCEPT !.fst = Encrypted(b)])

SetDefaultSegmentSize ==
    /\ Running
    /\ img.kind # "idle"
    /\ img' = set_segment_size(img, build_segment_size(img))
    /\ file' = None
    /\ ret' = Call("set_default_segment_size", None, Ok(<<>>))
    /\ prep' = [sized |-> TRUE, key |-> None]
    /\ UNCHANGED <<edits, codecVars, otaVars, flashVars>>

SetDefaultSignature ==
    /\ Running
    /\ img.kind # "idle"
    /\ \E key \in SignKeyInputs :
          LET signature == build_signature(img, key)
              stored == IF signature.ok THEN set_signature(img, signature.val)
                        ELSE Err(signature.err)
          IN /\ img' = IF stored.ok THEN stored.val ELSE img
             /\ ret' = Call("set_default_signature", key,
                            IF stored.ok THEN Ok(<<>>) ELSE Err(stored.err))
             /\ prep' = IF stored.ok /\ prep.sized THEN [prep EXCEPT !.key = key] ELSE prep
    /\ file' = None
    /\ UNCHANGED <<edits, codecVars, otaVars, flashVars>>

BuildSignature ==
    /\ Running
    /\ img.kind # "idle"
    /\ \E key \in SignKeyInputs : ret' = Call("build_signature", key, build_signature(img, key))
    /\ UNCHANGED <<img, file, edits, prep, codecVars, otaVars, flashVars>>

\* transfer_to(&image, &mut file) on a new file
Encode ==
    /\ Running
    /\ img.kind # "idle"
    /\ LET w == write_to(img)
       IN /\ file' = Some(w.bytes)
          /\ ret' = Call("encode", None, IF w.ok THEN Ok(<<>>) ELSE Err(w.err))
    /\ UNCHANGED <<img, edits, prep, codecVars, otaVars, flashVars>>

\* from_stream over the file
Decode ==
    /\ Running
    /\ img.kind # "idle"
    /\ IsSome(file)
    /\ ret' = With(read_from(img.kind, file[1]),
                   LAMBDA r : Call("decode", None, [ok |-> r.ok, err |-> r.err, val |-> r.val]))
    /\ UNCHANGED <<img, file, edits, prep, codecVars, otaVars, flashVars>>

\* image.create_signature(&mut file, key)
CreateSignature ==
    /\ Running
    /\ img.kind = "pt"
    /\ IsSome(file)
    /\ \E key \in SignKeyInputs :
          /\ IsSome(key)
          /\ ret' = Call("create_signature", key,
                         PartitionTableImage_create_signature(img, file[1], key[1]))
    /\ UNCHANGED <<img, file, edits, prep, codecVars, otaVars, flashVars>>

\* image.signature_from_stream(&mut file, algo, key) with the algorithm of the FST
SignatureFromStream ==
    /\ Running
    /\ img.kind = "sub" /\ ~is_encrypted(img.fst) /\ IsSome(img.fst.v.hash_algo)
    /\ IsSome(file)
    /\ \E key \in SignKeyInputs :
          ret' = Call("signature_from_stream", key,
                      SubImage_signature_from_stream(img, file[1], 0,
                                                     img.fst.v.hash_algo[1], key))
    /\ UNCHANGED <<img, file, edits, prep, codecVars, otaVars, flashVars>>

\* to_bytes(&part_tab) of the Plain partition table
EncodePartTab ==
    /\ Running
    /\ img.kind = "pt" /\ ~is_encrypted(img.pt)
    /\ LET w == PartTab_write_to(img.pt.v)
       IN ret' = Call("to_bytes", None, IF w.ok THEN Ok(w.bytes) ELSE Err(w.err))
    /\ UNCHANGED <<img, file, edits, prep, codecVars, otaVars, flashVars>>

ImageInit ==
    /\ \/ img = PartitionTableImage_default
       \/ img = BootImage_default
       \/ img = SubImage_default
    /\ file = None
    /\ ret = Call("new", None, Ok(<<>>))
    /\ edits = 0
    /\ prep = Unprepared
    /\ CodecIdle
    /\ OtaIdle
    /\ FlashIdle

ImageNext ==
    \/ NewRecord
    \/ SetStartAddr
    \/ SetUserBin
    \/ SetEncryptedPt
    \/ SetText
    \/ AddSection
    \/ SetHashAlgo
    \/ SetDefaultSegmentSize
    \/ SetDefaultSignature
    \/ BuildSignature
    \/ Encode
    \/ Decode
    \/ CreateSignature
    \/ EncodePartTab

Spec == ImageInit /\ [][ImageNext]_vars


----------------------------------------------------------------------------
(* Properties of the image specification                                    *)

\* the unaligned content size of a partition table image
PtContentSize ==
    IF is_encrypted(img.pt) THEN Len(img.pt.v)
    ELSE 32 + (Len(img.pt.v.records) + 1) * 64 + Len(img.pt.v.user_bin)

\* the image is a PartitionTableImage with a Plain table of at least one record
PlainPtWithRecords ==
    img.kind = "pt" /\ ~is_encrypted(img.pt) /\ Len(img.pt.v.records) >= 1

\* C4: for a PartitionTableImage with a Plain table of at least one record,
\* sized by set_default_segment_size and then signed by
\* set_default_signature(Some(k)) and not modified since, the stored hash is
\* the HMAC-SHA256 under k of the first 64 + 96 + header.segment_size bytes
\* that encode writes, and create_signature over the encoded stream with k
\* returns exactly the stored hash.
C4_StoredHashCoversEncoding ==
    (PlainPtWithRecords /\ IsSome(prep.key) /\ IsSome(file))
    => /\ Len(file[1]) >= 160 + img.header.segment_size
       /\ img.hash = hmac_sha256(prep.key[1], SubSeq(file[1], 1, 160 + img.header.segment_size))
       /\ (ret.op = "create_signature" /\ ret.key = prep.key)
             => (ret.res.ok /\ ret.res.val = img.hash)

C4_Witness ==
    /\ PlainPtWithRecords /\ IsSome(prep.key) /\ IsSome(file)
    /\ ret.op = "create_signature" /\ ret.key = prep.key
    /\ ret.res.ok /\ ret.res.val = img.hash

\* C5: encoding a PartTab with zero records fails with InvalidState; with
\* exactly one record it succeeds and the byte at offset 4 is 0; in general
\* the byte at offset 4 is the number of records minus one.
C5_RecordCountByte ==
    (ret.op = "to_bytes")
    => LET n == Len(img.pt.v.records)
       IN /\ n = 0 => (~ret.res.ok /\ ret.res.err = "InvalidState")
          /\ n = 1 => (ret.res.ok /\ ret.res.val[5] = 0)
          /\ n >= 1 => (ret.res.ok /\ ret.res.val[5] = n - 1)

C5_Witness ==
    /\ ret.op = "to_bytes" /\ Len(img.pt.v.records) = 2
    /\ ret.res.ok /\ ret.res.val[5] = 1

\* C6: decoding the encoding of a BootImage that was sized and then signed
\* with a key yields the same keyblock, image header, entry header and hash,
\* and a text that is the image's text followed by the zero padding that
\* fills the segment.
C6_BootImageRoundTrip ==
    (ret.op = "decode" /\ img.kind = "boot" /\ IsSome(prep.key))
    => /\ ret.res.ok
       /\ ret.res.val.keyblock = img.keyblock
       /\ ret.res.val.header = img.header
       /\ ret.res.val.entry = img.entry
       /\ ret.res.val.hash = img.hash
       /\ ret.res.val.text
             = img.text \o Fill(img.header.segment_size - 32 - Len(img.text), 0)

\* C8: once set_default_segment_size was applied, build_signature,
\* set_default_signature, encode and a further set_default_segment_size
\* leave header.segment_size unchanged; the size build_segment_size returns
\* is the same for any header.segment_size and any stored hash.
C8_SegmentSizeStable ==
    [][(img.kind \in {"pt", "boot", "sub"} /\ prep.sized) =>
          /\ build_segment_size(img) = img.header.segment_size
          /\ build_segment_size([img EXCEPT !.header.segment_size = 0,
                                            !.hash = Fill(32, 0)])
                = build_segment_size(img)
          /\ (ret'.op \in {"build_signature", "set_default_signature", "encode",
                           "set_default_segment_size"})
                => img'.header.segment_size = img.header.segment_size]_vars

C8_Witness ==
    /\ img.kind = "boot" /\ img.text # <<>>
    /\ prep.sized /\ IsSome(prep.key) /\ IsSome(file)
    /\ img.header.segment_size = build_segment_size(img)

\* C9: build_signature does not modify the image and returns what a second
\* call with the same key on the unmodified image returns; two partition
\* table images that differ only in the start_addr of one record serialize
\* to different signed bytes.
C9_SignatureBindsStartAddr ==
    [][/\ (ret'.op = "build_signature")
             => (img' = img /\ ret'.res = build_signature(img', ret'.key))
       /\ (ret'.op = "set_start_addr")
             => (PartitionTableImage_signed_bytes(img').bytes
                    # PartitionTableImage_signed_bytes(img).bytes)]_vars

C9_Witness ==
    /\ ret.op = "build_signature" /\ ret.res.ok /\ PlainPtWithRecords
    /\ \E i \in 1..Len(img.pt.v.records) : img.pt.v.records[i].start_addr = 16777216 + 16384

\* C25: PartTab::set_user_bin(b) sets the user binary data: afterwards
\* get_user_bin() equals b whatever the previous user data was, so a second
\* call with the same b leaves the state of the first (every call, the
\* second included, leaves the table with the b drawn as its user data and
\* nothing else changed).
C25_SetUserBinReplaces ==
    [][(ret'.op = "set_user_bin")
          => \E b \in UserBinInputs : img'.pt.v = [img.pt.v EXCEPT !.user_bin = b]]_vars

\* C27: decoding is total: Section, BootImage, SubImage and OTAImage decode
\* return a structure or an Error value for every byte string; a section
\* header length below 0x20, a BootImage segment_size below 0x20 or an
\* encrypted SubImage segment_size below 0x60 yields an Error, not an
\* arithmetic underflow or abort.
C27_DecodeIsTotal ==
    (ret.op = "decode" /\ img.kind \in {"boot", "sub"})
    => /\ ret.res.ok \/ ret.res.err # "panic"
       /\ (img.kind = "boot" /\ img.header.segment_size < 32) => ~ret.res.ok
       /\ (img.kind = "sub" /\ img.header.is_encrypt /\ img.header.segment_size < 96)
             => ~ret.res.ok

\* C28: for every SubImage with a Plain fst whose hash_algo is Md5 or Sha256,
\* with or without a key, set_default_signature completes without aborting
\* and afterwards the stored signature is the digest build_signature returned.
C28_SubImageSignatureStored ==
    (/\ ret.op = "set_default_signature"
     /\ img.kind = "sub"
     /\ ~is_encrypted(img.fst)
     /\ img.fst.v.hash_algo \in {Some(HashMd5), Some(HashSha256)})
    => /\ ret.res.ok
       /\ img.hash = build_signature(img, ret.key).val

\* C10: for every PartitionTableImage, build_segment_size is a multiple of
\* 0x20 and strictly greater than the unaligned content size; when the
\* content size is a multiple of 0x20 it is the content size plus 0x20.
C10_PtSegmentSizeAligned ==
    (img.kind = "pt")
    => LET size == PartitionTableImage_build_segment_size(img)
       IN /\ size % 32 = 0
          /\ size > PtContentSize
          /\ (PtContentSize % 32 = 0) => (size = PtContentSize + 32)
          /\ ret.op = "set_default_segment_size" => img.header.segment_size = size

C10_Witness ==
    /\ PlainPtWithRecords /\ ret.op = "set_default_segment_size"
    /\ PtContentSize % 32 = 0
    /\ img.header.segment_size = PtContentSize + 32


\* the number of bytes PartTab encode writes for a Plain table with records
PtEncodedSize == 32 + 64 * Len(img.pt.v.records) + Len(img.pt.v.user_bin)

\* n raised to the next multiple of 0x20 (n itself when it is one)
RoundUp32(n) == IF n % 32 = 0 THEN n ELSE n + (32 - (n % 32))

\* C11 (as stated): after set_default_segment_size on a PartitionTableImage
\* with a Plain table, header.segment_size is the number of bytes PartTab
\* encode writes (0x20 + 64 * records + user_bin), rounded up to the next
\* multiple of 0x20, plus 0x20.  Stated for the tables PartTab encode
\* writes, those with a record.
C11_SegmentSizeIsEncodedSize ==
    (PlainPtWithRecords /\ ret.op = "set_default_segment_size")
    => /\ Len(PartTab_write_to(img.pt.v).bytes) = PtEncodedSize
       /\ img.header.segment_size = RoundUp32(PtEncodedSize) + 32

\* C11 (amended): after set_default_segment_size on a PartitionTableImage
\* with a Plain table, header.segment_size is E + 64 + (0x20 - E mod 0x20)
\* where E = 0x20 + 64 * records + user_bin, and E is the number of bytes
\* PartTab encode writes when the table has a record.
C11_SegmentSizeCountsExtraRecord ==
    (img.kind = "pt" /\ ~is_encrypted(img.pt) /\ ret.op = "set_default_segment_size")
    => /\ img.header.segment_size = PtEncodedSize + 64 + (32 - (PtEncodedSize % 32))
       /\ Len(img.pt.v.records) >= 1
             => (PartTab_write_to(img.pt.v).ok
                   /\ Len(PartTab_write_to(img.pt.v).bytes) = PtEncodedSize)

C11_Witness ==
    /\ PlainPtWithRecords /\ ret.op = "set_default_segment_size"
    /\ Len(img.pt.v.user_bin) = 15
    /\ img.header.segment_size = 192

\* C12: for every PartitionTableImage and every header.segment_size, encode
\* emits exactly 64 + 96 + header.segment_size + 32 bytes: the table fills a
\* region of header.segment_size bytes whose unused tail is 0xFF, and the
\* hash starts at offset 160 + header.segment_size.
C12_PtEncodeLength ==
    (img.kind = "pt" /\ ret.op = "encode" /\ ret.res.ok)
    => LET size == img.header.segment_size
           table == EncryptedOrPartTab_write_to(img.pt).bytes
       IN /\ Len(file[1]) = 64 + 96 + size + 32
          /\ Slice(file[1], 160 + size, 32) = img.hash
          /\ \A i \in (160 + Len(table) + 1)..(160 + size) : file[1][i] = 255


----------------------------------------------------------------------------
(* Sub-image specification: a SubImage edited through its public fields,    *)
(* sized, signed, encoded, and its signature computed from the image and    *)
(* from the stream.                                                         *)

SubInit ==
    /\ img = SubImage_default
    /\ file = None
    /\ ret = Call("new", None, Ok(<<>>))
    /\ edits = 0
    /\ prep = Unprepared
    /\ CodecIdle
    /\ OtaIdle
    /\ FlashIdle

SubNext ==
    \/ AddSection
    \/ SetHashAlgo
    \/ SetEncryptedFst
    \/ SetDefaultSegmentSize
    \/ SetDefaultSignature
    \/ BuildSignature
    \/ Encode
    \/ Decode
    \/ SignatureFromStream

SpecSub == SubInit /\ [][SubNext]_vars

RECURSIVE PaddedSections(_)
\* the encodings of the sections, each padded with zeros to a multiple of 0x20
PaddedSections(sections) ==
    IF sections = <<>> THEN <<>>
    ELSE LET body == SectionHeader_write_to(Head(sections).header)
                     \o EntryHeader_write_to(Head(sections).entry_header)
                     \o Head(sections).data
         IN body \o Fill((32 - (Len(body) % 32)) % 32, 0) \o PaddedSections(Tail(sections))

PlainSha256SubImage ==
    /\ img.kind = "sub" /\ ~is_encrypted(img.fst) /\ ~is_encrypted(img.sections)
    /\ img.fst.v.hash_algo = Some(HashSha256)

\* C15: for a SubImage with Plain fst and sections, hash_algo Sha256 and a key
\* k, build_signature is HMAC-SHA256(k, B), where B is the 96-byte ImageHeader,
\* the 96-byte FST and each encoded section padded to 0x20 and has 96 +
\* build_segment_size() bytes; when header.segment_size = build_segment_size()
\* it equals signature_from_stream over the encoded bytes.
C15_SubImageSignature ==
    (PlainSha256SubImage /\ IsSome(ret.key)
        /\ ret.op \in {"build_signature", "signature_from_stream"})
    => LET B == ImageHeader_write_to(img.header) \o FST_write_to(img.fst.v)
                \o PaddedSections(img.sections.v)
           signature == SubImage_build_signature(img, ret.key)
       IN /\ signature.ok
          /\ signature.val = hmac_sha256(ret.key[1], B)
          /\ Len(B) = 96 + SubImage_build_segment_size(img)
          /\ ret.op = "build_signature" => ret.res = signature
          /\ (ret.op = "signature_from_stream"
                /\ img.header.segment_size = SubImage_build_segment_size(img))
                => ret.res = signature

\* C16: SubImage::build_signature fails with NotImplemented whenever fst is
\* Encrypted or hash_algo is None, for any key.
C16_BuildSignatureNotImplemented ==
    (img.kind = "sub" /\ ret.op = "build_signature"
        /\ (is_encrypted(img.fst) \/ img.fst.v.hash_algo = None))
    => (~ret.res.ok /\ ret.res.err = "NotImplemented")

-----------------------------------------------------------------------------
(* Partition table image files: an image file is loaded, sized, signed and *)
(* written back (PartitionTableImage::read_from and write_to).             *)

\* an image as a decode of its file yields it: Encrypted table of segment_size bytes
EncryptedPtImage(blob, key) ==
    [PartitionTableImage_default EXCEPT
        !.keyblock.hash_pubkey = key,
        !.header.is_encrypt = TRUE,
        !.header.segment_size = Len(blob),
        !.pt = Encrypted(blob)]

\* a sized image with a Plain table of one Boot record
PlainPtImage(user_bin) ==
    LET image == [PartitionTableImage_default EXCEPT
                     !.pt.v = set_user_bin(new_record(@, PT_Boot), user_bin)]
    IN [image EXCEPT !.header.segment_size = PartitionTableImage_build_segment_size(image)]

PtFileInputs ==
    {PartitionTableImage_write_to(EncryptedPtImage(b, k)).bytes :
        b \in BlobInputs, k \in {Fill(32, 255), Fill(32, 17)}}
    \cup {PartitionTableImage_write_to(PlainPtImage(u)).bytes : u \in UserBinInputs \cup {<<>>}}

\* from_stream::<PartitionTableImage>(&mut file): the image becomes what the file holds
Load ==
    /\ Running
    /\ img.kind = "pt"
    /\ IsSome(file)
    /\ edits < MaxEdits
    /\ LET r == read_from(img.kind, file[1])
       IN /\ img' = IF r.ok THEN r.val ELSE img
          /\ ret' = Call("load", None, IF r.ok THEN Ok(<<>>) ELSE Err(r.err))
    /\ edits' = edits + 1
    /\ prep' = Unprepared
    /\ UNCHANGED <<file, codecVars, otaVars, flashVars>>

PtFileInit ==
    /\ img = PartitionTableImage_default
    /\ file \in {Some(f) : f \in PtFileInputs}
    /\ ret = Call("new", None, Ok(<<>>))
    /\ edits = 0
    /\ prep = Unprepared
    /\ CodecIdle
    /\ OtaIdle
    /\ FlashIdle

PtFileNext ==
    \/ Load
    \/ SetDefaultSegmentSize
    \/ SetDefaultSignature
    \/ Encode
    \/ Decode

SpecPtFile == PtFileInit /\ [][PtFileNext]_vars

LoadedEncryptedPt == img.kind = "pt" /\ is_encrypted(img.pt) /\ img.header.is_encrypt

\* C13: for a PartitionTableImage with an Encrypted table the blob's length
\* equals header.segment_size right after decode and still after
\* set_default_segment_size, so decode, set_default_segment_size, encode,
\* decode gives the same segment_size and the same blob.
C13_EncryptedBlobSizeStable ==
    /\ (LoadedEncryptedPt /\ ret.op \in {"load", "set_default_segment_size"})
          => Len(img.pt.v) = img.header.segment_size
    /\ (LoadedEncryptedPt /\ prep.sized /\ ret.op = "decode")
          => /\ ret.res.ok
             /\ ret.res.val.header.segment_size = Len(img.pt.v)
             /\ ret.res.val.pt = img.pt

---------------------------------------------------------------------------
(* OTA specification: an OTAImage assembled from signed sub-images through  *)
(* its public fields, encoded and decoded.  `ofile` holds the stream        *)
(* written by the latest encode of the image as it is now, `oret` the       *)
(* latest call and what it returned.                                        *)

MaxSubimages == 2

\* a sub-image with one section, sized and signed as the examples do
SignedSubImage(sec) ==
    LET plain == [SubImage_default EXCEPT !.sections = Plain(<<sec>>)]
        sized == set_segment_size(plain, SubImage_build_segment_size(plain))
    IN [sized EXCEPT !.hash = SubImage_build_signature(sized, Some(HASH_KEY)).val]

NextOffsetInputs == {U32MAX, 16384}

ChecksumInputs == {None, Some(305419896)}

PublicKeyInputs == {None, Some(Fill(32, 17))}

OtaEdit(op, image) ==
    /\ ota' = image
    /\ ofile' = None
    /\ oret' = [op |-> op, res |-> Ok(<<>>)]
    /\ UNCHANGED <<codecVars, imageVars, flashVars>>

AddSubimage ==
    /\ Len(ota.subimages) < MaxSubimages
    /\ \E sec \in SectionInputs :
          OtaEdit("add_subimage", [ota EXCEPT !.subimages = Append(@, SignedSubImage(sec))])

\* get_subimage_mut(i).header.next_offset = v
SetNextOffset ==
    \E i \in 1..Len(ota.subimages), v \in NextOffsetInputs :
       /\ ota.subimages[i].header.next_offset # v
       /\ OtaEdit("set_next_offset", [ota EXCEPT !.subimages[i].header.next_offset = v])

SetChecksum ==
    \E c \in ChecksumInputs :
       /\ ota.checksum # c
       /\ OtaEdit("set_checksum", [ota EXCEPT !.checksum = c])

SetPublicKey ==
    \E k \in PublicKeyInputs :
       /\ ota.public_keys[1] # k
       /\ OtaEdit("set_public_key", [ota EXCEPT !.public_keys[1] = k])

\* get_subimage_mut(0).fst.as_mut().hash_algo = a
SetSubimageHashAlgo ==
    /\ Len(ota.subimages) >= 1
    /\ ~is_encrypted(ota.subimages[1].fst)
    /\ \E a \in {None, Some(HashMd5)} :
          /\ ota.subimages[1].fst.v.hash_algo # a
          /\ OtaEdit("set_hash_algo", [ota EXCEPT !.subimages[1].fst.v.hash_algo = a])

\* get_subimage_mut(0).fst.as_mut().enc_algo = a
SetSubimageEncAlgo ==
    /\ Len(ota.subimages) >= 1
    /\ ~is_encrypted(ota.subimages[1].fst)
    /\ \E a \in {None, Some(0)} :
          /\ ota.subimages[1].fst.v.enc_algo # a
          /\ OtaEdit("set_enc_algo", [ota EXCEPT !.subimages[1].fst.v.enc_algo = a])

\* get_subimage_mut(0).fst = EncryptedOr::Encrypted(blob)
SetSubimageEncryptedFst ==
    /\ Len(ota.subimages) >= 1
    /\ ~is_encrypted(ota.subimages[1].fst)
    /\ \E b \in FstBlobInputs :
          OtaEdit("set_fst", [ota EXCEPT !.subimages[1].fst = Encrypted(b)])

\* ota.build_ota_signature(key)
BuildOtaSignature ==
    /\ \E key \in SignKeyInputs :
          oret' = [op |-> "build_ota_signature", key |-> key,
                   res |-> OTAImage_build_ota_signature(ota, key)]
    /\ UNCHANGED <<ota, ofile, codecVars, imageVars, flashVars>>

\* transfer_to(&ota, &mut file) on a new file
OtaEncode ==
    /\ LET w == OTAImage_write_to(ota)
       IN /\ ofile' = Some(w.bytes)
          /\ oret' = [op |-> "encode", res |-> IF w.ok THEN Ok(<<>>) ELSE Err(w.err)]
    /\ UNCHANGED <<ota, codecVars, imageVars, flashVars>>

\* from_stream::<OTAImage> over the file
OtaDecode ==
    /\ IsSome(ofile)
    /\ oret' = With(OTAImage_read_from(ofile[1]), LAMBDA r :
                   [op |-> "decode", res |-> [ok |-> r.ok, err |-> r.err, val |-> r.val]])
    /\ UNCHANGED <<ota, ofile, codecVars, imageVars, flashVars>>

OtaInit ==
    /\ ota = OTAImage_default
    /\ ofile = None
    /\ oret = NoRes
    /\ CodecIdle
    /\ ImageIdle
    /\ FlashIdle

OtaNext ==
    \/ AddSubimage
    \/ SetNextOffset
    \/ SetChecksum
    \/ SetPublicKey
    \/ OtaEncode
    \/ OtaDecode

SpecOTA == OtaInit /\ [][OtaNext]_vars

\* the OTA image assembled and edited, and its OTA signature built
OtaSignNext ==
    \/ AddSubimage
    \/ SetNextOffset
    \/ SetSubimageHashAlgo
    \/ SetSubimageEncAlgo
    \/ SetSubimageEncryptedFst
    \/ BuildOtaSignature

SpecOTASign == OtaInit /\ [][OtaSignNext]_vars

----------------------------------------------------------------------------
(* Properties of the OTA specification                                      *)

\* at least one sub-image, all plain, and exactly the last has no next offset
ChainTerminated ==
    /\ Len(ota.subimages) >= 1
    /\ \A i \in 1..Len(ota.subimages) :
          /\ ~is_encrypted(ota.subimages[i].fst) /\ ~is_encrypted(ota.subimages[i].sections)
          /\ (ota.subimages[i].header.next_offset = U32MAX) <=> (i = Len(ota.subimages))

\* C7: for an OTAImage with at least one plain sub-image in which exactly
\* the last sub-image has next_offset = 0xFFFFFFFF, decoding the encoded
\* bytes succeeds and yields the same public keys, sub-images and checksum,
\* also when the checksum is None.
C7_OTAImageRoundTrip ==
    (oret.op = "decode" /\ ChainTerminated)
    => /\ oret.res.ok
       /\ oret.res.val.public_keys = ota.public_keys
       /\ oret.res.val.subimages = ota.subimages
       /\ oret.res.val.checksum = ota.checksum


----------------------------------------------------------------------------
(* Flash specification: a Flash assembled from a partition table image, a   *)
(* SystemData and a boot image through its setters, encoded and decoded.    *)
(* `ffile` holds the stream written by the latest encode of the flash as it *)
(* is now, `fret` the latest call and what it returned.                     *)

\* set_default_segment_size(&mut image)
Sized(image) == set_segment_size(image, build_segment_size(image))

\* set_default_segment_size(&mut image); set_default_signature(&mut image, Some(HASH_KEY))
SizedSigned(image) ==
    [Sized(image) EXCEPT !.hash = build_signature(Sized(image), Some(HASH_KEY)).val]

\* a Sys record for the SystemData that Flash::write_to puts at 0x1000
SysRecord == [Record_default EXCEPT !.part_type = PT_Sys, !.start_addr = 4096, !.length = 4096]

\* a PartitionTableImage with a Plain table of one Boot record
BootRecordPt(start_addr, length) ==
    [PartitionTableImage_default EXCEPT
        !.pt.v.records = <<[Record_default EXCEPT !.part_type = PT_Boot,
                                                  !.start_addr = start_addr,
                                                  !.length = length]>>]

FlashPtInputs ==
    {SizedSigned(BootRecordPt(16384, 32768)),
     BootRecordPt(16384, 32768),
     SizedSigned(BootRecordPt(4096, 32768)),
     SizedSigned([BootRecordPt(16384, 32768) EXCEPT !.pt.v = new_record(@, PT_Fw1)]),
     SizedSigned([BootRecordPt(20480, 32768) EXCEPT !.pt.v.user_bin = Fill(3680, 85)]),
     SizedSigned([BootRecordPt(16384, 32768) EXCEPT !.pt.v.records = Append(@, SysRecord)]),
     Sized(PartitionTableImage_default)}

FlashEncryptedPtInputs == {EncryptedPtImage(Fill(32, 238), Fill(32, 255))}

FlashBootInputs ==
    {SizedSigned(BootImage_default),
     SizedSigned([BootImage_default EXCEPT !.text = <<1, 2, 3>>]),
     BootImage_default}

CalibrationInputs == {Fill(16, 0), [i \in 1..16 |-> 152 + i]}

FlashEdit(op, image) ==
    /\ flash' = image
    /\ ffile' = None
    /\ fret' = Call(op, None, Ok(<<>>))
    /\ UNCHANGED <<codecVars, imageVars, otaVars>>

\* *flash.get_calibration_pattern_mut() = pattern
SetCalibrationPattern ==
    \E pattern \in CalibrationInputs :
       FlashEdit("set_calibration_pattern", [flash EXCEPT !.calibration_pattern = pattern])

SetPartitionTable ==
    \/ \E image \in FlashPtInputs :
          FlashEdit("set_partition_table", set_partition_table(flash, image))
    \/ \E image \in FlashEncryptedPtInputs :
          FlashEdit("set_partition_table", set_partition_table(flash, image))

SetSystemPartition ==
    FlashEdit("set_system_partition", set_system_partition(flash, SystemData_default))

SetBootPartition ==
    \E image \in FlashBootInputs :
       FlashEdit("set_boot_partition", set_boot_partition(flash, image))

\* transfer_to(&flash, &mut file) on a new file
FlashEncode ==
    /\ LET out == With(Flash_write_to(flash), LAMBDA w :
                    [file |-> Some(w.bytes),
                     ret |-> Call("encode", None, IF w.ok THEN Ok(<<>>) ELSE Err(w.err))])
       IN ffile' = out.file /\ fret' = out.ret
    /\ UNCHANGED <<flash, codecVars, imageVars, otaVars>>

\* from_stream::<Flash>(&mut file)
FlashDecode ==
    /\ IsSome(ffile)
    /\ fret' = Call("decode", None, Flash_read_from(ffile[1]))
    /\ UNCHANGED <<flash, ffile, codecVars, imageVars, otaVars>>

FlashInit ==
    /\ flash = Flash_default
    /\ ffile = None
    /\ fret = Call("new", None, Ok(<<>>))
    /\ CodecIdle
    /\ ImageIdle
    /\ OtaIdle

FlashNext ==
    \/ SetCalibrationPattern
    \/ SetPartitionTable
    \/ SetSystemPartition
    \/ SetBootPartition
    \/ FlashEncode
    \/ FlashDecode

SpecFlash == FlashInit /\ [][FlashNext]_vars

----------------------------------------------------------------------------
(* Flash layout specification: partition tables with Boot, Fw1, Fw2 and     *)
(* User records at addresses in order, out of order, overlapping and        *)
(* adjoining, over flashes with and without the partitions                  *)

LayoutRecord(part_type, start_addr) ==
    [Record_default EXCEPT !.part_type = part_type, !.start_addr = start_addr,
                           !.length = 4096]

LayoutPt(records) == SizedSigned([PartitionTableImage_default EXCEPT !.pt.v.records = records])

\* the write position after the calibration pattern, the partition table and
\* the system, calibration and reserved sectors
FixedRegionEnd == 16384

LayoutPtInputs ==
    {LayoutPt(<<LayoutRecord(PT_Boot, 16384), LayoutRecord(PT_Fw1, 16896),
                LayoutRecord(PT_Fw2, 18433), LayoutRecord(PT_User, 20480)>>),
     LayoutPt(<<LayoutRecord(PT_User, 20480), LayoutRecord(PT_Boot, 16400)>>),
     LayoutPt(<<LayoutRecord(PT_Fw1, 20480), LayoutRecord(PT_Fw2, 17408)>>),
     LayoutPt(<<LayoutRecord(PT_Boot, 16384), LayoutRecord(PT_Fw1, 16448)>>),
     LayoutPt(<<LayoutRecord(PT_Boot, 16384), LayoutRecord(PT_Fw1, 16672)>>),
     LayoutPt(<<LayoutRecord(PT_Boot, 12288), LayoutRecord(PT_User, 20480)>>),
     LayoutPt(<<LayoutRecord(PT_User, 16400)>>)}

FirmwareInputs ==
    {OTAImage_default,
     [OTAImage_default EXCEPT
        !.subimages = <<SignedSubImage([Section_default EXCEPT
                                           !.data = <<1, 2, 3, 4, 5>>,
                                           !.header.length = 37,
                                           !.entry_header.length = 5])>>]}

RawInputs == {<<1, 2, 3, 4, 5>>}

SetLayoutTable ==
    \E image \in LayoutPtInputs :
       FlashEdit("set_partition_table", set_partition_table(flash, image))

\* flash.set_partition(PartitionType::Fw1, Partition::Fw1(image))
SetFw1Partition ==
    \E image \in FirmwareInputs :
       FlashEdit("set_partition", set_partition(flash, PT_Fw1, Fw1(image)))

\* flash.set_partition(PartitionType::Fw2, Partition::Fw2(image))
SetFw2Partition ==
    \E image \in FirmwareInputs :
       FlashEdit("set_partition", set_partition(flash, PT_Fw2, Fw2(image)))

\* flash.set_partition(PartitionType::User, Partition::User(raw))
SetUserPartition ==
    \E raw \in RawInputs :
       FlashEdit("set_partition", set_partition(flash, PT_User, User(raw)))

FlashLayoutNext ==
    \/ SetLayoutTable
    \/ SetSystemPartition
    \/ SetBootPartition
    \/ SetFw1Partition
    \/ SetFw2Partition
    \/ SetUserPartition
    \/ FlashEncode

SpecFlashLayout == FlashInit /\ [][FlashLayoutNext]_vars

----------------------------------------------------------------------------
(* Properties of the flash specification *)

HasPlainTable ==
    /\ IsSome(flash.partitions[PT_PartTab])
    /\ flash.partitions[PT_PartTab][1].tag = "PartitionTable"
    /\ ~is_encrypted(flash.partitions[PT_PartTab][1].v.pt)

FlashTable == flash.partitions[PT_PartTab][1].v.pt.v

\* the fixed order in which encode takes the partition types
WriteOrder == <<PT_Boot, PT_Fw1, PT_Fw2, PT_User>>

Recorded(i) == has_record(FlashTable, WriteOrder[i])

RecordAt(i) == FlashTable.records[record_index(FlashTable, WriteOrder[i])]

\* the encoding of the partition of WriteOrder[i] placed at its record's start_addr
EncodingAt(i) ==
    Partition_write_to(flash.partitions[WriteOrder[i]][1], RecordAt(i).start_addr).bytes

\* the write position when WriteOrder[i] is reached, the earlier ones being written
PositionBefore(i) ==
    IF \A j \in 1..(i - 1) : ~Recorded(j) THEN FixedRegionEnd
    ELSE LET j == CHOOSE j \in 1..(i - 1) :
                     Recorded(j) /\ \A k \in (j + 1)..(i - 1) : ~Recorded(k)
         IN IF IsSome(flash.partitions[WriteOrder[j]])
            THEN RecordAt(j).start_addr + Len(EncodingAt(j))
            ELSE RecordAt(j).start_addr

\* C21: in every successful Flash encode, for each type among Boot, Fw1, Fw2
\* and User (in that order) that has a Record in the partition table, the
\* partition's first byte is at output offset record.start_addr and the gap
\* before it is filled; when the write position already exceeds
\* record.start_addr or no partition of the record's type is set, encode
\* fails with InvalidState.
C21_PartitionsAtStartAddr ==
    (fret.op = "encode" /\ HasPlainTable)
    => /\ fret.res.ok
          => \A i \in 1..4 : Recorded(i)
                => /\ IsSome(flash.partitions[WriteOrder[i]])
                   /\ PositionBefore(i) <= RecordAt(i).start_addr
                   /\ CanRead(ffile[1], RecordAt(i).start_addr, Len(EncodingAt(i)))
                   /\ Slice(ffile[1], RecordAt(i).start_addr, Len(EncodingAt(i)))
                         = EncodingAt(i)
                   /\ \A k \in (PositionBefore(i) + 1)..RecordAt(i).start_addr :
                         ffile[1][k] = 255
       /\ (\E i \in 1..4 : Recorded(i) /\ ~IsSome(flash.partitions[WriteOrder[i]]))
          => (~fret.res.ok /\ fret.res.err = "InvalidState")
       /\ (\E i \in 1..4 :
              /\ Recorded(i)
              /\ \A j \in 1..i : Recorded(j) => IsSome(flash.partitions[WriteOrder[j]])
              /\ PositionBefore(i) > RecordAt(i).start_addr)
          => (~fret.res.ok /\ fret.res.err = "InvalidState")

\* all four partitions written, Fw2 (with a section) at an address off the
\* 32-byte grid
C21_Witness ==
    /\ fret.op = "encode" /\ fret.res.ok
    /\ HasPlainTable
    /\ \A i \in 1..4 : Recorded(i) /\ IsSome(flash.partitions[WriteOrder[i]])
    /\ RecordAt(3).start_addr = 18433
    /\ Len(flash.partitions[PT_Fw2][1].v.subimages) = 1
    /\ Len(ffile[1]) = 20485

\* an overlap: the Fw1 record starts inside the boot image written at 0x4000
C21_WitnessOverlap ==
    /\ fret.op = "encode" /\ ~fret.res.ok
    /\ HasPlainTable
    /\ IsSome(flash.partitions[PT_Sys])
    /\ Recorded(1) /\ Recorded(2)
    /\ IsSome(flash.partitions[PT_Boot]) /\ IsSome(flash.partitions[PT_Fw1])
    /\ RecordAt(2).start_addr = 16448

\* the flash of C14 with a calibration pattern
BootFlash(pattern) ==
    [set_boot_partition(
        set_system_partition(
           set_partition_table(Flash_default, SizedSigned(BootRecordPt(16384, 32768))),
           SystemData_default),
        SizedSigned(BootImage_default))
     EXCEPT !.calibration_pattern = pattern]

IsBootFlash ==
    /\ IsSome(flash.partitions[PT_PartTab])
    /\ ~is_encrypted(flash.partitions[PT_PartTab][1].v.pt)
    /\ \E pattern \in CalibrationInputs : flash = BootFlash(pattern)

\* C14: for the Flash built from a sized and signed PartitionTableImage (Plain,
\* one Boot record, start_addr 0x4000, length 0x8000), a sized and signed
\* BootImage with empty text and the default SystemData, encode succeeds, and
\* decode of the stream gives a Flash whose Boot partition is a BootImage with
\* the same header.segment_size and img_type and whose calibration pattern is
\* the original 16 bytes.
C14_FlashBootRoundTrip ==
    /\ (IsBootFlash /\ fret.op = "encode") => fret.res.ok
    /\ (IsBootFlash /\ fret.op = "decode")
          => /\ fret.res.ok
             /\ IsSome(fret.res.val.partitions[PT_Boot])
             /\ LET decoded == fret.res.val.partitions[PT_Boot][1]
                    original == flash.partitions[PT_Boot][1]
                IN /\ decoded.tag = "Bootloader"
                   /\ decoded.v.header.segment_size = original.v.header.segment_size
                   /\ decoded.v.header.img_type = original.v.header.img_type
             /\ fret.res.val.calibration_pattern = flash.calibration_pattern

C14_Witness ==
    /\ IsBootFlash
    /\ flash.calibration_pattern # Fill(16, 0)
    /\ fret.op = "decode" /\ fret.res.ok
    /\ Len(ffile[1]) > 16384
    /\ fret.res.val.partitions[PT_Boot][1].v.header.segment_size = 64

\* C20: Flash encode fails with InvalidState when there is no PartTab
\* partition, fails with InvalidState when there is a PartTab partition but no
\* Sys partition, and succeeds only when both are present.
C20_FlashMandatoryPartitions ==
    fret.op = "encode"
    => /\ ~IsSome(flash.partitions[PT_PartTab])
             => (~fret.res.ok /\ fret.res.err = "InvalidState")
       /\ (IsSome(flash.partitions[PT_PartTab]) /\ ~IsSome(flash.partitions[PT_Sys]))
             => (~fret.res.ok /\ fret.res.err = "InvalidState")
       /\ fret.res.ok
             => (IsSome(flash.partitions[PT_PartTab]) /\ IsSome(flash.partitions[PT_Sys]))

C20_Witness ==
    /\ fret.op = "encode"
    /\ IsSome(flash.partitions[PT_PartTab])
    /\ ~is_encrypted(flash.partitions[PT_PartTab][1].v.pt)
    /\ Len(flash.partitions[PT_PartTab][1].v.pt.v.records) = 1
    /\ IsSome(flash.partitions[PT_Boot])
    /\ ~IsSome(flash.partitions[PT_Sys])
    /\ fret.res.err = "InvalidState"
    /\ Len(ffile[1]) = 4096

\* the flash of the build_flash example: the default PartitionTableImage after
\* set_default_segment_size, the default SystemData and a boot image
IsExampleFlash ==
    /\ IsSome(flash.partitions[PT_PartTab])
    /\ ~is_encrypted(flash.partitions[PT_PartTab][1].v.pt)
    /\ flash.partitions[PT_PartTab][1].v = Sized(PartitionTableImage_default)
    /\ flash.partitions[PT_Sys] = Some(System(SystemData_default))
    /\ IsSome(flash.partitions[PT_Boot])

\* C24: as in the build_flash example, a default PartitionTableImage is
\* prepared with set_default_segment_size and set_default_signature(Some(key))
\* without error, and a Flash holding it as partition table together with a
\* default SystemData and a boot image is encoded successfully by transfer_to.
C24_BuildFlashExample ==
    (IsExampleFlash /\ fret.op = "encode")
    => /\ build_signature(Sized(PartitionTableImage_default), Some(HASH_KEY)).ok
       /\ fret.res.ok

\* the flash holds a partition table and a system partition, and the table's
\* encoding is at most 0xFE0 bytes long
HasShortTable ==
    /\ IsSome(flash.partitions[PT_PartTab])
    /\ IsSome(flash.partitions[PT_Sys])
    /\ PartitionTableImage_write_to(flash.partitions[PT_PartTab][1].v).ok
    /\ Len(PartitionTableImage_write_to(flash.partitions[PT_PartTab][1].v).bytes) <= 4064

\* C26: for every Flash whose encoded PartitionTableImage is at most 0xFE0
\* bytes long (it ends at or before offset 0x1000), encode places the first
\* byte of the SystemData at offset 0x1000, the SystemData encoding is exactly
\* 0x1000 bytes, and the write position after the following 0x2000 bytes of
\* padding is 0x4000.
C26_SystemDataAt0x1000 ==
    (fret.op = "encode" /\ HasShortTable)
    => /\ Len(SystemData_write_to(flash.partitions[PT_Sys][1].v)) = 4096
       /\ CanRead(ffile[1], 4096, 4096)
       /\ Slice(ffile[1], 4096, 4096) = SystemData_write_to(flash.partitions[PT_Sys][1].v)
       /\ CanRead(ffile[1], 8192, 8192)
       /\ Slice(ffile[1], 8192, 8192) = Fill(8192, 255)
       /\ (~HasPlainTable \/ \A i \in 1..4 : ~Recorded(i)) => Len(ffile[1]) = 16384

\* C30: decoding the output of a successful Flash encode yields a Flash that
\* contains both a PartTab partition and a Sys partition, also when the
\* partition table has no Sys record, and encoding the decoded Flash succeeds.
C30_DecodedFlashEncodes ==
    (fret.op = "decode" /\ fret.res.ok /\ Flash_write_to(flash).ok)
    => /\ IsSome(fret.res.val.partitions[PT_PartTab])
       /\ IsSome(fret.res.val.partitions[PT_Sys])
       /\ Flash_write_to(fret.res.val).ok

\* C17: build_ota_signature returns the hash (the HMAC when a key is given) of
\* exactly the 96-byte encoding of sub-image 0's ImageHeader under sub-image
\* 0's fst.hash_algo, whatever the sections, the other FST fields and the later
\* sub-images are; it fails with NotImplemented when there is no sub-image 0,
\* when its fst is Encrypted, or when its hash_algo is None.
C17_OtaSignatureCoversHeaderOnly ==
    oret.op = "build_ota_signature"
    => IF Len(ota.subimages) = 0 \/ is_encrypted(ota.subimages[1].fst)
          \/ ota.subimages[1].fst.v.hash_algo = None
       THEN ~oret.res.ok /\ oret.res.err = "NotImplemented"
       ELSE LET header == ImageHeader_write_to(ota.subimages[1].header)
                algo == ota.subimages[1].fst.v.hash_algo[1]
            IN /\ Len(header) = 96
               /\ oret.res.ok
               /\ oret.res.val =
                     CASE algo = HashSha256 /\ IsSome(oret.key) -> hmac_sha256(oret.key[1], header)
                       [] algo = HashSha256 /\ ~IsSome(oret.key) -> sha256(header)
                       [] algo = HashMd5 /\ IsSome(oret.key) -> hmac_md5(oret.key[1], header)
                       [] algo = HashMd5 /\ ~IsSome(oret.key) -> md5(header)

C17_Witness ==
    /\ oret.op = "build_ota_signature" /\ oret.res.ok /\ IsSome(oret.key)
    /\ Len(ota.subimages) = 2
    /\ ota.subimages[1].fst.v.enc_algo = None
    /\ Len(ota.subimages[1].sections.v[1].data) > 0
    /\ ota.subimages[1].header.next_offset # U32MAX
    /\ Len(ota.subimages[2].sections.v[1].data) = 0

----------------------------------------------------------------------------
(* Start-offset specification: a Section, a SubImage or an OTAImage encoded *)
(* by a writer whose stream position is `start` when write_to begins: 0 for *)
(* a scratch buffer or a file of its own, 224 for the first sub-image of an *)
(* OTA file, a record's start_addr for a firmware partition of a Flash      *)

StartOffsets == {0, 1, 32, 64, 224, 4096, 16384, 18433, 20480}

SubImageInputs == {SubImage_default} \cup {SignedSubImage(sec) : sec \in SectionInputs}

IsEncodable(c) ==
    \/ c \in {[type |-> "Section", v |-> [value |-> x, start |-> p]] :
                 x \in SectionInputs, p \in StartOffsets}
    \/ c \in {[type |-> "SubImage", v |-> [value |-> x, start |-> p]] :
                 x \in SubImageInputs, p \in StartOffsets}
    \/ c \in {[type |-> "OTAImage", v |-> [value |-> x, start |-> p]] :
                 x \in FirmwareInputs, p \in StartOffsets}

\* value.write_to(&mut writer) with the writer at stream position start
write_at(type, value, start) ==
    CASE type = "Section" -> Section_write_to(value, start)
      [] type = "SubImage" -> SubImage_write_to(value, start)
      [] type = "OTAImage" -> OTAImage_write_at(value, start).bytes

EncodeAt ==
    /\ cres.op = "none"
    /\ cbytes' = write_at(cval.type, cval.v.value, cval.v.start)
    /\ cres' = [op |-> "write_at", res |-> Ok(<<>>)]
    /\ UNCHANGED <<cval, imageVars, otaVars, flashVars>>

\* the buffer SubImage::build_signature serializes the image into and hashes
SerializeForSignature ==
    /\ cval.type = "SubImage"
    /\ cres.op = "write_at"
    /\ cres' = [op |-> "signed_bytes", res |-> Ok(SubImage_signed_bytes(cval.v.value))]
    /\ UNCHANGED <<cval, cbytes, imageVars, otaVars, flashVars>>

StartOffsetInit ==
    /\ IsEncodable(cval)
    /\ cbytes = <<>>
    /\ cres = NoRes
    /\ ImageIdle
    /\ OtaIdle
    /\ FlashIdle

StartOffsetNext ==
    \/ EncodeAt
    \/ SerializeForSignature

SpecStartOffset == StartOffsetInit /\ [][StartOffsetNext]_vars

\* C29: the bytes Section, SubImage and OTAImage encode write do not depend on
\* the writer's position when encode starts (they are the bytes written from
\* position 0), so the bytes SubImage::build_signature serializes from offset
\* 0 and hashes are the header, FST and sections bytes encode wrote.
C29_EncodeIsPositionIndependent ==
    /\ cres.op \in {"write_at", "signed_bytes"}
          => cbytes = write_at(cval.type, cval.v.value, 0)
    /\ cres.op = "signed_bytes"
          => /\ Len(cres.res.val) <= Len(cbytes)
             /\ cres.res.val = SubSeq(cbytes, 1, Len(cres.res.val))

SpecCodec == CodecInit /\ [][CodecNext]_vars

====
